---- MODULE Spec2Model ----
(***************************************************************************)
(* Model of the icemap frontend: the proximity clusterer of the heat map   *)
(* (MapComponent.js), the nearby-incident query and the pause/unpause      *)
(* selection state of UnifiedPanel (src/unnamed/part_009), driven by the   *)
(* cursor and click events that App.js forwards from the Leaflet map.      *)
(*                                                                         *)
(* Coordinates and radii are integers in millidegrees (0.001 degree = 1),  *)
(* so 40.0 is 40000 and the search radius 0.1 is 100.  Distances reported  *)
(* by calculateDistance are integers in metres.                            *)
(*                                                                         *)
(* React 18 scheduling (createRoot) is modelled as follows.                *)
(*  - A state setter enqueues an update; the hook's value changes at the   *)
(*    render that processes the update.                                    *)
(*  - Updates made in a click handler (Leaflet 'click', button onClick)    *)
(*    are rendered synchronously when the handler returns, and the effects *)
(*    of that render run synchronously.  That render processes the         *)
(*    handler's updates only.                                              *)
(*  - Updates made in 'mousemove'/'mouseout' handlers, in effects and      *)
(*    after an await are rendered later by a scheduler task; the effects   *)
(*    of such a render run in a further scheduler task, and in any case    *)
(*    before the next render starts.                                       *)
(*  - An effect runs when one of its dependencies differs from the         *)
(*    previous render, and sees the values of its own render.              *)
(*                                                                         *)
(* Specifications: Spec is the application; ClusterSpec applies            *)
(* clusterPoints, RadiusSpec the two zoom-to-radius chains, QuerySpec the  *)
(* cursor effect of UnifiedPanel and HeatSpec the effect of either         *)
(* HeatMapLayer, each to inputs drawn by its initial condition.  LoadSpec  *)
(* takes the text of the arrest file through the loader to the heat map    *)
(* and the query; LayerSpec is the life of one HeatMapLayer on the map;    *)
(* NewsSpec and PageSpec are the news and incident lists of UnifiedPanel   *)
(* with their load-more; VisitSpec is the visit tracking of App.           *)
(***************************************************************************)
EXTENDS Integers, Sequences, FiniteSets, TLC

VARIABLES
    \* App state (App.js:183-184, App.js:7 / setArrestData)
    arrestData, cursorPosition, mapClickCount,
    \* Leaflet map zoom read by CursorTracker (map.getZoom())
    mapZoom,
    \* number of completed loadArrestData runs
    loads,
    \* UnifiedPanel state (part_009:38-46)
    activeTab, nearbyIncidents, displayedIncidentCount,
    persistentIncidents, isPersistent, lastClickCount,
    \* updates enqueued and not yet rendered
    pendingCursor, pending,
    \* effects of the last render that have not run yet
    effCursor, effClick,
    \* clusterPoints under test: input points, radius, result, position
    cpoints, cradius, clusters, cpc,
    \* the zoom-to-radius chains under test: two zooms, a position, the data,
    \* the radii and filter results, position
    rz1, rz2, rloc, rdata, rout, rpc,
    \* the nearby-incident query under test: position, data, result, position
    qpos, qdata, qresult, qpc,
    \* the heat map effect under test: HeatMapLayer variant, data, zoom, the
    \* array handed to HeatLayer, position
    hvariant, hdata, hzoom, heatMapData, hpc,
    \* the path of the arrest file from its text to the heat map and the
    \* query: lines of the file, arrestData, the outputs, the steps taken
    lraw, ldata, lout, lran,
    \* the life of one HeatMapLayer: variant, arrestData prop rendered and
    \* delivered, map.getZoom(), currentZoom rendered and enqueued, the heat
    \* layers on the map, heatLayerRef.current, whether the last effect run
    \* returned a cleanup, whether the effect is due, the position inside
    \* the effect, layers created, whether a zoomend has happened, events
    layerVariant, layerArrestData, pendingArrestData, layerMapZoom,
    currentZoom, pendingZoom, mapLayers, heatLayerRef, layerCleanup,
    layerEffectDue, layerPc, layersCreated, layerZoomed, layerEvents,
    \* the news list of UnifiedPanel (part_009:49-53): state, updates not
    \* yet rendered, load-mores waiting for their 300 ms, loadArticles
    \* position, scroll events
    allArticles, articles, displayedArticleCount, loadingMoreArticles,
    newsPending, newsTimers, newsPc, newsScrolls,
    \* the incident list of UnifiedPanel with load-more (part_009:39-47):
    \* state, updates not yet rendered, load-mores waiting, load-mores
    \* begun since the last live result, live results stored
    pageIncidents, pageCount, loadingMoreIncidents, pagePending, pageTimers,
    pageSince, pageResults,
    \* visit tracking of App (App.js:191-205): the localStorage item, the
    \* open browser tabs, loads so far
    visitStore, visitTabs, visitLoads

vars == <<arrestData, cursorPosition, mapClickCount, mapZoom, loads,
          activeTab, nearbyIncidents, displayedIncidentCount,
          persistentIncidents, isPersistent, lastClickCount,
          pendingCursor, pending, effCursor, effClick,
          cpoints, cradius, clusters, cpc,
          rz1, rz2, rloc, rdata, rout, rpc,
          qpos, qdata, qresult, qpc,
          hvariant, hdata, hzoom, heatMapData, hpc,
          lraw, ldata, lout, lran,
          layerVariant, layerArrestData, pendingArrestData, layerMapZoom,
          currentZoom, pendingZoom, mapLayers, heatLayerRef, layerCleanup,
          layerEffectDue, layerPc, layersCreated, layerZoomed, layerEvents,
          allArticles, articles, displayedArticleCount, loadingMoreArticles,
          newsPending, newsTimers, newsPc, newsScrolls,
          pageIncidents, pageCount, loadingMoreIncidents, pagePending,
          pageTimers, pageSince, pageResults,
          visitStore, visitTabs, visitLoads>>

appVars == <<arrestData, cursorPosition, mapClickCount, mapZoom, loads,
             activeTab, nearbyIncidents, displayedIncidentCount,
             persistentIncidents, isPersistent, lastClickCount,
             pendingCursor, pending, effCursor, effClick>>

clusterVars == <<cpoints, cradius, clusters, cpc>>

radiusVars == <<rz1, rz2, rloc, rdata, rout, rpc>>

queryVars == <<qpos, qdata, qresult, qpc>>

heatVars == <<hvariant, hdata, hzoom, heatMapData, hpc>>

loadVars == <<lraw, ldata, lout, lran>>

layerVars == <<layerVariant, layerArrestData, pendingArrestData, layerMapZoom,
               currentZoom, pendingZoom, mapLayers, heatLayerRef,
               layerCleanup, layerEffectDue, layerPc, layersCreated,
               layerZoomed, layerEvents>>

newsVars == <<allArticles, articles, displayedArticleCount,
              loadingMoreArticles, newsPending, newsTimers, newsPc,
              newsScrolls>>

pageVars == <<pageIncidents, pageCount, loadingMoreIncidents, pagePending,
              pageTimers, pageSince, pageResults>>

visitVars == <<visitStore, visitTabs, visitLoads>>

\* the variables of the components modelled on their own
partVars == <<loadVars, layerVars, newsVars, pageVars, visitVars>>

\* the variables of the functions under test
funVars == <<clusterVars, radiusVars, queryVars, heatVars, partVars>>

----------------------------------------------------------------------------
(* Bounds of the model *)

\* map clicks per behaviour
MaxClicks == 2
\* completed arrest-data loads per behaviour
MaxLoads == 1
\* longest point sequence handed to clusterPoints under ClusterSpec
MaxPoints == 3
\* largest latitude of the ClusterSpec input grid
GridMax == 2
\* largest radius of the ClusterSpec inputs
MaxRadius == 2
\* largest zoom of the RadiusSpec and QuerySpec inputs
MaxZoom == 13
\* number of negative zooms of the RadiusSpec and QuerySpec inputs
NegZooms == 1
\* longest arrest list handed to the heat map effect under HeatSpec
MaxHeatRows == 3
\* longest arrest list built from QueryRows under QuerySpec
MaxQueryRows == 3
\* rows by which the largest dense arrest list exceeds maxResults
DenseExtra == 1

----------------------------------------------------------------------------
(* Pure helpers *)

\* parseFloat gives NaN for an unparsable coordinate
NaN == 999999999

isNaN(x) == x = NaN

\* Math.sqrt(dx^2 + dy^2) <= radius, on integers
WithinRadius(lat1, lng1, lat2, lng2, radius) ==
    /\ radius >= 0
    /\ (lat1 - lat2) * (lat1 - lat2) + (lng1 - lng2) * (lng1 - lng2)
         <= radius * radius

\* x >= n in JavaScript: false when x is undefined or NaN (ToNumber gives
\* NaN for undefined, and every comparison with NaN is false)
GE(x, n) == ~isNaN(x) /\ x >= n

\* getClusterRadius with > for >=
getClusterRadiusStrict(zoom) ==
    IF ~isNaN(zoom) /\ zoom > 10 THEN 1
    ELSE IF ~isNaN(zoom) /\ zoom > 8 THEN 5
    ELSE IF ~isNaN(zoom) /\ zoom > 6 THEN 20
    ELSE IF ~isNaN(zoom) /\ zoom > 4 THEN 50
    ELSE 100

\* getClusterRadius(zoom), in millidegrees
getClusterRadius(zoom) ==
    IF GE(zoom, 10) THEN 1
    ELSE IF GE(zoom, 8) THEN 5
    ELSE IF GE(zoom, 6) THEN 20
    ELSE IF GE(zoom, 4) THEN 50
    ELSE 100

\* the searchRadius chain with a missing zoom read as the lowest mapped zoom
searchRadiusDefaultZoom(zoom) ==
    IF GE(zoom, 12) THEN 50
    ELSE IF GE(zoom, 10) THEN 100
    ELSE IF GE(zoom, 8) THEN 250
    ELSE IF GE(zoom, 6) THEN 500
    ELSE IF GE(zoom, 4) \/ isNaN(zoom) THEN 1000
    ELSE 2000

\* the searchRadius chain with the values of two branches exchanged
searchRadiusSwapped(zoom) ==
    IF GE(zoom, 12) THEN 50
    ELSE IF GE(zoom, 10) THEN 100
    ELSE IF GE(zoom, 8) THEN 500
    ELSE IF GE(zoom, 6) THEN 250
    ELSE IF GE(zoom, 4) THEN 1000
    ELSE 2000

\* the searchRadius chain of the cursor effect, in millidegrees
searchRadius(zoom) ==
    IF GE(zoom, 12) THEN 50
    ELSE IF GE(zoom, 10) THEN 100
    ELSE IF GE(zoom, 8) THEN 250
    ELSE IF GE(zoom, 6) THEN 500
    ELSE IF GE(zoom, 4) THEN 1000
    ELSE 2000

----------------------------------------------------------------------------
(* clusterPoints: the nested forEach with the `used` index set.  A cluster *)
(* is the sequence of the input indices of its members, in push order.    *)

\* InnerScan variants used to test the clustering properties
RECURSIVE InnerScanNoMark(_, _, _, _, _)
InnerScanNoMark(points, radius, index, otherIndex, acc) ==
    IF otherIndex > Len(points) THEN acc
    ELSE IF otherIndex \in acc.used
         THEN InnerScanNoMark(points, radius, index, otherIndex + 1, acc)
    ELSE IF WithinRadius(points[index].lat, points[index].lng,
                         points[otherIndex].lat, points[otherIndex].lng, radius)
         THEN InnerScanNoMark(points, radius, index, otherIndex + 1,
                        [cluster |-> Append(acc.cluster, otherIndex),
                         used |-> acc.used])
    ELSE InnerScanNoMark(points, radius, index, otherIndex + 1, acc)

RECURSIVE InnerScanChained(_, _, _, _, _)
InnerScanChained(points, radius, index, otherIndex, acc) ==
    IF otherIndex > Len(points) THEN acc
    ELSE IF otherIndex \in acc.used
         THEN InnerScanChained(points, radius, index, otherIndex + 1, acc)
    ELSE IF LET last == acc.cluster[Len(acc.cluster)]
            IN WithinRadius(points[last].lat, points[last].lng,
                            points[otherIndex].lat, points[otherIndex].lng, radius)
         THEN InnerScanChained(points, radius, index, otherIndex + 1,
                        [cluster |-> Append(acc.cluster, otherIndex),
                         used |-> acc.used \cup {otherIndex}])
    ELSE InnerScanChained(points, radius, index, otherIndex + 1, acc)

RECURSIVE InnerScanStrict(_, _, _, _, _)
InnerScanStrict(points, radius, index, otherIndex, acc) ==
    IF otherIndex > Len(points) THEN acc
    ELSE IF otherIndex \in acc.used
         THEN InnerScanStrict(points, radius, index, otherIndex + 1, acc)
    ELSE IF (points[index].lat - points[otherIndex].lat)
              * (points[index].lat - points[otherIndex].lat)
            + (points[index].lng - points[otherIndex].lng)
              * (points[index].lng - points[otherIndex].lng)
            < radius * radius
         THEN InnerScanStrict(points, radius, index, otherIndex + 1,
                        [cluster |-> Append(acc.cluster, otherIndex),
                         used |-> acc.used \cup {otherIndex}])
    ELSE InnerScanStrict(points, radius, index, otherIndex + 1, acc)

RECURSIVE InnerScan(_, _, _, _, _)
InnerScan(points, radius, index, otherIndex, acc) ==
    IF otherIndex > Len(points) THEN acc
    ELSE IF otherIndex \in acc.used
         THEN InnerScan(points, radius, index, otherIndex + 1, acc)
    ELSE IF WithinRadius(points[index].lat, points[index].lng,
                         points[otherIndex].lat, points[otherIndex].lng, radius)
         THEN InnerScan(points, radius, index, otherIndex + 1,
                        [cluster |-> Append(acc.cluster, otherIndex),
                         used |-> acc.used \cup {otherIndex}])
    ELSE InnerScan(points, radius, index, otherIndex + 1, acc)

RECURSIVE OuterScan(_, _, _, _)
OuterScan(points, radius, index, acc) ==
    IF index > Len(points) THEN acc.clusters
    ELSE IF index \in acc.used
         THEN OuterScan(points, radius, index + 1, acc)
    ELSE LET got == InnerScan(points, radius, index, 1,
                              [cluster |-> <<index>>,
                               used |-> acc.used \cup {index}])
         IN OuterScan(points, radius, index + 1,
                      [clusters |-> Append(acc.clusters, got.cluster),
                       used |-> got.used])

clusterPoints(points, radius) ==
    OuterScan(points, radius, 1, [clusters |-> <<>>, used |-> {}])

----------------------------------------------------------------------------
(* The arrest file and the map positions of the model *)

\* rows of /arrests_with_titles.csv after parseCSVLine, coordinates already
\* through parseFloat; the last row has an unparsable latitude
RawFile1 ==
    << [latitude |-> 40000, longitude |-> -74000, url |-> "a"],
       [latitude |-> 40090, longitude |-> -74000, url |-> "b"],
       [latitude |-> 40000, longitude |-> -73900, url |-> "c"],
       [latitude |-> 40000, longitude |-> -74100, url |-> "b"],
       [latitude |-> 41000, longitude |-> -75000, url |-> "d"],
       [latitude |-> NaN,   longitude |-> -74000, url |-> "e"] >>

\* the files a load can deliver
RawFiles == {RawFile1}

\* positions the pointer can report: on point a, on point d, far from all
Locations ==
    { [lat |-> 40000, lng |-> -74000],
      [lat |-> 41000, lng |-> -75000],
      [lat |-> 45000, lng |-> -80000] }

\* zoom levels the map can be at
Zooms == {4, 12}

\* MapContainer zoom={4}
InitialZoom == 4

\* the filter of loadArrestData: rows with numeric latitude and longitude
loadArrestData(raw) ==
    SelectSeq(raw, LAMBDA arrest :
        ~isNaN(arrest.latitude) /\ ~isNaN(arrest.longitude))

\* calculateDistance (haversine, R = 6371 km) in metres, tabulated for the
\* position/point pairs of the model
HaversineMetres ==
    ( <<40000, -74000, 40000, -74000>> :> 0
   @@ <<40000, -74000, 40090, -74000>> :> 10008
   @@ <<40000, -74000, 40000, -73900>> :> 8518
   @@ <<40000, -74000, 40000, -74100>> :> 8518
   @@ <<40000, -74000, 41000, -75000>> :> 139689
   @@ <<41000, -75000, 40000, -74000>> :> 139689
   @@ <<41000, -75000, 40090, -74000>> :> 131826
   @@ <<41000, -75000, 40000, -73900>> :> 144962
   @@ <<41000, -75000, 40000, -74100>> :> 134739
   @@ <<41000, -75000, 41000, -75000>> :> 0
   @@ <<45000, -80000, 40000, -74000>> :> 741904
   @@ <<45000, -80000, 40090, -74000>> :> 734210
   @@ <<45000, -80000, 40000, -73900>> :> 747348
   @@ <<45000, -80000, 40000, -74100>> :> 736510
   @@ <<45000, -80000, 41000, -75000>> :> 602389 )

\* calculateDistance for two points of one longitude: dLng = 0, so a is
\* sin^2(dLat/2), c is |dLat| and the result is R * |dLat| * PI / 180:
\* 111.195 m for each millidegree, to the nearest metre
MeridianMetres(lat1, lat2) ==
    LET dLat == IF lat1 >= lat2 THEN lat1 - lat2 ELSE lat2 - lat1
    IN (111195 * dLat + 500) \div 1000

calculateDistance(lat1, lng1, lat2, lng2) ==
    IF lng1 = lng2 THEN MeridianMetres(lat1, lat2)
    ELSE HaversineMetres[<<lat1, lng1, lat2, lng2>>]

----------------------------------------------------------------------------
(* The nearby-incident query of the cursor effect (part_009:106-153) *)

\* cursorPosition: null, or {lat, lng, zoom}
Null == [isNull |-> TRUE, lat |-> 0, lng |-> 0, zoom |-> 0]

Pos(lat, lng, zoom) == [isNull |-> FALSE, lat |-> lat, lng |-> lng, zoom |-> zoom]

\* arrestData.map(...).filter(point => !isNaN(point.lat) && !isNaN(point.lng))
ValidPoints(data) ==
    SelectSeq(data, LAMBDA arrest :
        ~isNaN(arrest.latitude) /\ ~isNaN(arrest.longitude))

\* nearby with distance < searchRadius for the filter
NearbyOfStrict(pos, points) ==
    LET inRange == SelectSeq(points, LAMBDA point :
            (pos.lat - point.latitude) * (pos.lat - point.latitude)
              + (pos.lng - point.longitude) * (pos.lng - point.longitude)
            < searchRadius(pos.zoom) * searchRadius(pos.zoom))
    IN [i \in 1..Len(inRange) |->
          [latitude |-> inRange[i].latitude,
           longitude |-> inRange[i].longitude,
           url |-> inRange[i].url,
           distance |-> calculateDistance(pos.lat, pos.lng,
                            inRange[i].latitude, inRange[i].longitude)]]

\* points.filter(distance <= searchRadius).map({...data, distance})
NearbyOf(pos, points) ==
    LET inRange == SelectSeq(points, LAMBDA point :
            WithinRadius(pos.lat, pos.lng, point.latitude, point.longitude,
                         searchRadius(pos.zoom)))
    IN [i \in 1..Len(inRange) |->
          [latitude |-> inRange[i].latitude,
           longitude |-> inRange[i].longitude,
           url |-> inRange[i].url,
           distance |-> calculateDistance(pos.lat, pos.lng,
                            inRange[i].latitude, inRange[i].longitude)]]

\* self.findIndex(i => i.url === incident.url)
FindIndexByUrl(self, url) ==
    CHOOSE k \in 1..Len(self) :
        /\ self[k].url = url
        /\ \A j \in 1..(k - 1) : self[j].url # url

\* the duplicate filter comparing each entry with its predecessor only
uniqueIncidentsAdjacent(nearby) ==
    LET indexed == [index \in 1..Len(nearby) |->
                       [index |-> index, incident |-> nearby[index]]]
        kept == SelectSeq(indexed, LAMBDA entry :
                    \/ entry.index = 1
                    \/ nearby[entry.index - 1].url # entry.incident.url)
    IN [k \in 1..Len(kept) |-> kept[k].incident]

\* nearby.filter((incident, index, self) => index === self.findIndex(...))
uniqueIncidents(nearby) ==
    LET indexed == [index \in 1..Len(nearby) |->
                       [index |-> index, incident |-> nearby[index]]]
        kept == SelectSeq(indexed, LAMBDA entry :
                    entry.index = FindIndexByUrl(nearby, entry.incident.url))
    IN [k \in 1..Len(kept) |-> kept[k].incident]

\* Array.prototype.sort((a, b) => a.distance - b.distance), a stable sort:
\* an entry goes behind the entries of smaller distance and behind the
\* earlier entries of equal distance
SortByDistance(list) ==
    LET n == Len(list)
        place == SubSeq([i \in 1..n |->
                    Cardinality({j \in 1..n :
                        \/ list[j].distance < list[i].distance
                        \/ (list[j].distance = list[i].distance /\ j < i)}) + 1],
                    1, n)
    IN [k \in 1..n |-> list[CHOOSE i \in 1..n : place[i] = k]]

\* .slice(0, 100)
maxResults == 100

\* sortedIncidents without the sort
sortedIncidentsNoSort(unique) ==
    SubSeq(unique, 1, IF Len(unique) < maxResults THEN Len(unique) ELSE maxResults)

\* sortedIncidents without the slice
sortedIncidentsNoSlice(unique) == SortByDistance(unique)

\* sortedIncidents with the slice ahead of the sort
sortedIncidentsSliceFirst(unique) ==
    SortByDistance(SubSeq(unique, 1,
        IF Len(unique) < maxResults THEN Len(unique) ELSE maxResults))

sortedIncidents(unique) ==
    LET sorted == SortByDistance(unique)
    IN SubSeq(sorted, 1, IF Len(sorted) < maxResults THEN Len(sorted) ELSE maxResults)

\* the query with the sort ahead of the duplicate filter
QuerySortBeforeUnique(pos, data) ==
    LET unique == uniqueIncidents(SortByDistance(NearbyOf(pos, ValidPoints(data))))
    IN SubSeq(unique, 1, IF Len(unique) < maxResults THEN Len(unique) ELSE maxResults)

\* the value the cursor effect hands to setNearbyIncidents
Query(pos, data) ==
    sortedIncidents(uniqueIncidents(NearbyOf(pos, ValidPoints(data))))

----------------------------------------------------------------------------
(* UnifiedPanel: effects and derived values *)

\* setDisplayedIncidentCount(20)
PageSize == 20

\* no update enqueued for any hook; a field holds <<v>> for a pending set(v)
NoUpdates ==
    [arrestData |-> <<>>, nearbyIncidents |-> <<>>,
     displayedIncidentCount |-> <<>>, persistentIncidents |-> <<>>,
     isPersistent |-> <<>>, lastClickCount |-> <<>>, activeTab |-> <<>>]

\* the value a hook takes at a render that processes update u
Apply(u, current) == IF u = <<>> THEN current ELSE u[1]

\* props and state as the committed render sees them
Rendered ==
    [cursorPosition |-> cursorPosition, arrestData |-> arrestData,
     onMapClick |-> mapClickCount, nearbyIncidents |-> nearbyIncidents,
     isPersistent |-> isPersistent, lastClickCount |-> lastClickCount]

\* currentIncidents without the persistent list
currentIncidentsLive == nearbyIncidents

\* const currentIncidents = isPersistent ? persistentIncidents : nearbyIncidents
currentIncidents ==
    IF isPersistent THEN persistentIncidents ELSE nearbyIncidents

\* the cursor effect without the reset for an absent position or empty data
CursorEffectNoReset(r, q) ==
    IF r.cursorPosition.isNull \/ Len(r.arrestData) = 0 THEN q
    ELSE IF r.isPersistent THEN q
    ELSE [q EXCEPT !.nearbyIncidents = <<Query(r.cursorPosition, r.arrestData)>>,
                   !.displayedIncidentCount = <<PageSize>>]

\* the cursor effect leaving nearbyIncidents alone when the query finds nothing
CursorEffectSkipsEmpty(r, q) ==
    IF r.cursorPosition.isNull \/ Len(r.arrestData) = 0
    THEN IF ~r.isPersistent
         THEN [q EXCEPT !.nearbyIncidents = << <<>> >>,
                        !.displayedIncidentCount = <<PageSize>>]
         ELSE q
    ELSE IF r.isPersistent THEN q
    ELSE IF Query(r.cursorPosition, r.arrestData) = <<>> THEN q
    ELSE [q EXCEPT !.nearbyIncidents = <<Query(r.cursorPosition, r.arrestData)>>,
                   !.displayedIncidentCount = <<PageSize>>]

\* the cursor effect, deps [cursorPosition, arrestData, isPersistent]:
\* r is the render it belongs to, q the updates enqueued so far
CursorEffect(r, q) ==
    IF r.cursorPosition.isNull \/ Len(r.arrestData) = 0
    THEN IF ~r.isPersistent
         THEN [q EXCEPT !.nearbyIncidents = << <<>> >>,
                        !.displayedIncidentCount = <<PageSize>>]
         ELSE q
    ELSE IF r.isPersistent THEN q
    ELSE [q EXCEPT !.nearbyIncidents = <<Query(r.cursorPosition, r.arrestData)>>,
                   !.displayedIncidentCount = <<PageSize>>]

\* the click effect without setPersistentIncidents([...nearbyIncidents])
ClickEffectNoSnapshot(r, q) ==
    LET toggled ==
          IF r.onMapClick > r.lastClickCount /\ Len(r.nearbyIncidents) > 0
          THEN IF ~r.isPersistent
               THEN [q EXCEPT !.isPersistent = <<TRUE>>,
                              !.activeTab = <<"incidents">>]
               ELSE [q EXCEPT !.persistentIncidents = << <<>> >>,
                              !.isPersistent = <<FALSE>>]
          ELSE q
    IN [toggled EXCEPT !.lastClickCount = <<r.onMapClick>>]

\* the click effect without the nearbyIncidents.length > 0 test
ClickEffectNoGuard(r, q) ==
    LET toggled ==
          IF r.onMapClick > r.lastClickCount
          THEN IF ~r.isPersistent
               THEN [q EXCEPT !.persistentIncidents = <<r.nearbyIncidents>>,
                              !.isPersistent = <<TRUE>>,
                              !.activeTab = <<"incidents">>]
               ELSE [q EXCEPT !.persistentIncidents = << <<>> >>,
                              !.isPersistent = <<FALSE>>]
          ELSE q
    IN [toggled EXCEPT !.lastClickCount = <<r.onMapClick>>]

\* the click effect, deps [onMapClick, nearbyIncidents, isPersistent,
\* lastClickCount]
ClickEffect(r, q) ==
    LET toggled ==
          IF r.onMapClick > r.lastClickCount /\ Len(r.nearbyIncidents) > 0
          THEN IF ~r.isPersistent
               THEN [q EXCEPT !.persistentIncidents = <<r.nearbyIncidents>>,
                              !.isPersistent = <<TRUE>>,
                              !.activeTab = <<"incidents">>]
               ELSE [q EXCEPT !.persistentIncidents = << <<>> >>,
                              !.isPersistent = <<FALSE>>]
          ELSE q
    IN [toggled EXCEPT !.lastClickCount = <<r.onMapClick>>]

\* the effects of render r that are due, in declaration order
RunEffects(r, q, cursorDue, clickDue) ==
    LET q1 == IF cursorDue THEN CursorEffect(r, q) ELSE q
    IN IF clickDue THEN ClickEffect(r, q1) ELSE q1

----------------------------------------------------------------------------
(* Initial state: the panel mounted, nothing loaded, pointer off the map *)

AppInit ==
    /\ arrestData = <<>>
    /\ cursorPosition = Null
    /\ mapClickCount = 0
    /\ mapZoom = InitialZoom
    /\ loads = 0
    /\ activeTab = "incidents"
    /\ nearbyIncidents = <<>>
    /\ displayedIncidentCount = PageSize
    /\ persistentIncidents = <<>>
    /\ isPersistent = FALSE
    /\ lastClickCount = 0
    /\ pendingCursor = <<>>
    /\ pending = NoUpdates
    /\ effCursor = FALSE
    /\ effClick = FALSE

\* the functions under test are not running
ClusterIdle ==
    /\ cpoints = <<>>
    /\ cradius = 0
    /\ clusters = <<>>
    /\ cpc = "idle"

RadiusIdle ==
    /\ rz1 = InitialZoom
    /\ rz2 = InitialZoom
    /\ rloc = Null
    /\ rdata = <<>>
    /\ rout = <<>>
    /\ rpc = "idle"

QueryIdle ==
    /\ qpos = Null
    /\ qdata = <<>>
    /\ qresult = <<>>
    /\ qpc = "idle"

HeatIdle ==
    /\ hvariant = 1
    /\ hdata = <<>>
    /\ hzoom = InitialZoom
    /\ heatMapData = <<>>
    /\ hpc = "idle"

LoadIdle ==
    /\ lraw = <<>>
    /\ ldata = <<>>
    /\ lout = <<>>
    /\ lran = {}

LayerIdle ==
    /\ layerVariant = 1
    /\ layerArrestData = <<>>
    /\ pendingArrestData = <<>>
    /\ layerMapZoom = InitialZoom
    /\ currentZoom = InitialZoom
    /\ pendingZoom = <<>>
    /\ mapLayers = {}
    /\ heatLayerRef = 0
    /\ layerCleanup = FALSE
    /\ layerEffectDue = FALSE
    /\ layerPc = "off"
    /\ layersCreated = 0
    /\ layerZoomed = FALSE
    /\ layerEvents = 0

NewsIdle ==
    /\ allArticles = <<>>
    /\ articles = <<>>
    /\ displayedArticleCount = PageSize
    /\ loadingMoreArticles = FALSE
    /\ newsPending = <<>>
    /\ newsTimers = <<>>
    /\ newsPc = "off"
    /\ newsScrolls = 0

PageIdle ==
    /\ pageIncidents = <<>>
    /\ pageCount = PageSize
    /\ loadingMoreIncidents = FALSE
    /\ pagePending = <<>>
    /\ pageTimers = 0
    /\ pageSince = 0
    /\ pageResults = 0

VisitIdle ==
    /\ visitStore = [isNull |-> TRUE, text |-> <<>>]
    /\ visitTabs = <<>>
    /\ visitLoads = 0

\* the components modelled on their own are not running
PartsIdle == LoadIdle /\ LayerIdle /\ NewsIdle /\ PageIdle /\ VisitIdle

Init ==
    /\ AppInit
    /\ ClusterIdle
    /\ RadiusIdle
    /\ QueryIdle
    /\ HeatIdle
    /\ PartsIdle

----------------------------------------------------------------------------
(* Events and scheduler tasks *)

\* loadArrestData resolves: setArrestData(arrestData) after the awaits
ArrestDataLoaded(raw) ==
    /\ loads < MaxLoads
    /\ loads' = loads + 1
    /\ pending' = [pending EXCEPT !.arrestData = <<loadArrestData(raw)>>]
    /\ UNCHANGED <<arrestData, cursorPosition, mapClickCount, mapZoom,
                   activeTab, nearbyIncidents, displayedIncidentCount,
                   persistentIncidents, isPersistent, lastClickCount,
                   pendingCursor, effCursor, effClick, funVars>>

\* Leaflet finishes a zoom: map.getZoom() changes
ZoomEnd(zoom) ==
    /\ zoom # mapZoom
    /\ mapZoom' = zoom
    /\ UNCHANGED <<arrestData, cursorPosition, mapClickCount, loads,
                   activeTab, nearbyIncidents, displayedIncidentCount,
                   persistentIncidents, isPersistent, lastClickCount,
                   pendingCursor, pending, effCursor, effClick, funVars>>

\* CursorTracker.handleMouseMove -> App.handleCursorMove({lat, lng, zoom})
handleMouseMove(loc) ==
    /\ pendingCursor' = <<Pos(loc.lat, loc.lng, mapZoom)>>
    /\ UNCHANGED <<arrestData, cursorPosition, mapClickCount, mapZoom, loads,
                   activeTab, nearbyIncidents, displayedIncidentCount,
                   persistentIncidents, isPersistent, lastClickCount,
                   pending, effCursor, effClick, funVars>>

\* CursorTracker.handleMouseLeave -> App.handleCursorMove(null)
handleMouseLeave ==
    /\ pendingCursor' = <<Null>>
    /\ UNCHANGED <<arrestData, cursorPosition, mapClickCount, mapZoom, loads,
                   activeTab, nearbyIncidents, displayedIncidentCount,
                   persistentIncidents, isPersistent, lastClickCount,
                   pending, effCursor, effClick, funVars>>

\* CursorTracker.handleMapClick -> App.handleMapClick: setMapClickCount(prev+1),
\* rendered at once; the click effect of that render runs at once
handleMapClick ==
    /\ mapClickCount < MaxClicks
    /\ LET q0 == RunEffects(Rendered, pending, effCursor, effClick)
           r1 == [Rendered EXCEPT !.onMapClick = mapClickCount + 1]
       IN /\ mapClickCount' = mapClickCount + 1
          /\ pending' = RunEffects(r1, q0, FALSE, TRUE)
    /\ effCursor' = FALSE
    /\ effClick' = FALSE
    /\ UNCHANGED <<arrestData, cursorPosition, mapZoom, loads,
                   activeTab, nearbyIncidents, displayedIncidentCount,
                   persistentIncidents, isPersistent, lastClickCount,
                   pendingCursor, funVars>>

\* handleTabSwitch without the unpause on the news tab
handleTabSwitchKeepsPause(newTab) ==
    /\ activeTab' = newTab
    /\ pending' = [RunEffects(Rendered, pending, effCursor, effClick)
                     EXCEPT !.activeTab = <<>>]
    /\ effCursor' = FALSE
    /\ effClick' = FALSE
    /\ UNCHANGED <<arrestData, cursorPosition, mapClickCount, mapZoom, loads,
                   nearbyIncidents, displayedIncidentCount,
                   persistentIncidents, isPersistent, lastClickCount,
                   pendingCursor, funVars>>

\* handleTabSwitch without setPersistentIncidents([])
handleTabSwitchKeepsSnapshot(newTab) ==
    LET unpause == newTab = "news" /\ isPersistent
        q0 == RunEffects(Rendered, pending, effCursor, effClick)
        q1 == [q0 EXCEPT !.activeTab = <<>>,
                         !.isPersistent = IF unpause THEN <<>> ELSE @]
        r1 == [Rendered EXCEPT !.isPersistent = IF unpause THEN FALSE ELSE @]
    IN /\ isPersistent' = IF unpause THEN FALSE ELSE isPersistent
       /\ activeTab' = newTab
       /\ pending' = RunEffects(r1, q1, unpause, unpause)
       /\ effCursor' = FALSE
       /\ effClick' = FALSE
       /\ UNCHANGED <<arrestData, cursorPosition, mapClickCount, mapZoom, loads,
                      nearbyIncidents, displayedIncidentCount, lastClickCount,
                      persistentIncidents, pendingCursor, funVars>>

\* button onClick={() => handleTabSwitch(newTab)}, rendered at once; an
\* update of the handler replaces an earlier queued update of the same hook
handleTabSwitch(newTab) ==
    LET unpause == newTab = "news" /\ isPersistent
        q0 == RunEffects(Rendered, pending, effCursor, effClick)
        q1 == [q0 EXCEPT !.activeTab = <<>>,
                         !.persistentIncidents = IF unpause THEN <<>> ELSE @,
                         !.isPersistent = IF unpause THEN <<>> ELSE @]
        r1 == [Rendered EXCEPT !.isPersistent = IF unpause THEN FALSE ELSE @]
    IN /\ persistentIncidents' = IF unpause THEN <<>> ELSE persistentIncidents
       /\ isPersistent' = IF unpause THEN FALSE ELSE isPersistent
       /\ activeTab' = newTab
       /\ pending' = RunEffects(r1, q1, unpause, unpause)
       /\ effCursor' = FALSE
       /\ effClick' = FALSE
       /\ UNCHANGED <<arrestData, cursorPosition, mapClickCount, mapZoom, loads,
                      nearbyIncidents, displayedIncidentCount, lastClickCount,
                      pendingCursor, funVars>>

\* scheduler task: the effects still due run
FlushPassiveEffects ==
    /\ effCursor \/ effClick
    /\ pending' = RunEffects(Rendered, pending, effCursor, effClick)
    /\ effCursor' = FALSE
    /\ effClick' = FALSE
    /\ UNCHANGED <<arrestData, cursorPosition, mapClickCount, mapZoom, loads,
                   activeTab, nearbyIncidents, displayedIncidentCount,
                   persistentIncidents, isPersistent, lastClickCount,
                   pendingCursor, funVars>>

\* scheduler task: the effects still due run, then every enqueued update is
\* rendered and committed; the effects whose dependencies changed become due
Render ==
    /\ pendingCursor # <<>> \/ pending # NoUpdates
    /\ LET q == RunEffects(Rendered, pending, effCursor, effClick)
           cursorChanged ==
               /\ pendingCursor # <<>>
               /\ ~(pendingCursor[1].isNull /\ cursorPosition.isNull)
       IN /\ cursorPosition' = Apply(pendingCursor, cursorPosition)
          /\ arrestData' = Apply(q.arrestData, arrestData)
          /\ nearbyIncidents' = Apply(q.nearbyIncidents, nearbyIncidents)
          /\ displayedIncidentCount' =
                 Apply(q.displayedIncidentCount, displayedIncidentCount)
          /\ persistentIncidents' =
                 Apply(q.persistentIncidents, persistentIncidents)
          /\ isPersistent' = Apply(q.isPersistent, isPersistent)
          /\ lastClickCount' = Apply(q.lastClickCount, lastClickCount)
          /\ activeTab' = Apply(q.activeTab, activeTab)
          /\ effCursor' = \/ cursorChanged
                          \/ q.arrestData # <<>>
                          \/ isPersistent' # isPersistent
          /\ effClick' = \/ q.nearbyIncidents # <<>>
                         \/ isPersistent' # isPersistent
                         \/ lastClickCount' # lastClickCount
    /\ pendingCursor' = <<>>
    /\ pending' = NoUpdates
    /\ UNCHANGED <<mapClickCount, mapZoom, loads, funVars>>

Next ==
    \/ \E raw \in RawFiles : ArrestDataLoaded(raw)
    \/ \E zoom \in Zooms : ZoomEnd(zoom)
    \/ \E loc \in Locations : handleMouseMove(loc)
    \/ handleMouseLeave
    \/ handleMapClick
    \/ \E newTab \in {"incidents", "news"} : handleTabSwitch(newTab)
    \/ FlushPassiveEffects
    \/ Render

Spec == Init /\ [][Next]_vars

----------------------------------------------------------------------------
(* clusterPoints on every small input *)

\* lat/lng pairs of the grid 0..GridMax x 0..1
GridPoints == [lat : 0..GridMax, lng : 0..1]

\* every point sequence of length 0..MaxPoints
PointSeqs == UNION {[1..n -> GridPoints] : n \in 0..MaxPoints}

ClusterInit ==
    /\ AppInit
    /\ RadiusIdle
    /\ QueryIdle
    /\ HeatIdle
    /\ PartsIdle
    /\ cpoints \in PointSeqs
    /\ cradius \in 0..MaxRadius
    /\ clusters = <<>>
    /\ cpc = "input"

\* const clusters = clusterPoints(points, radius)
RunClusterPoints ==
    /\ cpc = "input"
    /\ clusters' = clusterPoints(cpoints, cradius)
    /\ cpc' = "done"
    /\ UNCHANGED <<appVars, cpoints, cradius, radiusVars, queryVars, heatVars,
                   partVars>>

ClusterNext == RunClusterPoints

ClusterSpec == ClusterInit /\ [][ClusterNext]_vars

----------------------------------------------------------------------------
(* Properties of the selection state (LIVE = ~isPersistent, FROZEN =      *)
(* isPersistent; the snapshot is persistentIncidents)                      *)

\* nothing enqueued and no effect due
Quiescent ==
    /\ pendingCursor = <<>>
    /\ pending = NoUpdates
    /\ ~effCursor
    /\ ~effClick

\* a step that delivers one map click
MapClicked == mapClickCount' = mapClickCount + 1

\* the result the query gives for a position and a point set
LiveResult(pos, data) ==
    IF pos.isNull \/ data = <<>> THEN <<>> ELSE Query(pos, data)

\* the position of the latest pointer event that has arrived
LastArrived ==
    IF pendingCursor # <<>> THEN pendingCursor[1] ELSE cursorPosition

\* C1: a map click that arrives while LIVE with a non-empty nearbyIncidents
\* enqueues the move to FROZEN with a snapshot equal to nearbyIncidents (same
\* entries, same order), and the render that processes it commits FROZEN with
\* that snapshot.
C1_CommitFreezesLiveResult ==
    [][ /\ (MapClicked /\ ~isPersistent /\ nearbyIncidents # <<>>)
            => /\ pending'.isPersistent = <<TRUE>>
               /\ pending'.persistentIncidents = <<nearbyIncidents>>
        /\ (Render /\ pending.isPersistent = <<TRUE>>)
            => /\ isPersistent'
               /\ persistentIncidents' = nearbyIncidents ]_vars

C1_Witness ==
    /\ isPersistent
    /\ Len(persistentIncidents) > 1
    /\ persistentIncidents = nearbyIncidents
    /\ lastClickCount = mapClickCount

\* C2: while FROZEN the displayed result is the snapshot taken at the freezing
\* commit: it equals the result displayed when the state became FROZEN and no
\* later step (pointer move, pointer leave, zoom, render) changes it while the
\* state stays FROZEN.
C2_FrozenDisplayIsSnapshot ==
    [][ isPersistent' =>
          currentIncidents' =
              IF isPersistent THEN persistentIncidents ELSE nearbyIncidents ]_vars

C2_Witness ==
    /\ isPersistent
    /\ Quiescent
    /\ currentIncidents # <<>>
    /\ currentIncidents # LiveResult(cursorPosition, arrestData)

\* C3: a map click that arrives while FROZEN always enqueues the return to
\* LIVE and the discarding of the snapshot.
C3_CommitUnfreezes ==
    [][ (MapClicked /\ isPersistent)
          => /\ pending'.isPersistent = <<FALSE>>
             /\ pending'.persistentIncidents = << <<>> >> ]_vars

\* C4: the selection state starts LIVE with an empty snapshot, and a map click
\* that arrives while LIVE with an empty nearbyIncidents changes neither the
\* state nor the snapshot and enqueues no change of them.
C4_EmptyCommitStaysLive ==
    /\ ~isPersistent /\ persistentIncidents = <<>>
    /\ [][ (MapClicked /\ ~isPersistent /\ nearbyIncidents = <<>>)
             => /\ UNCHANGED <<isPersistent, persistentIncidents>>
                /\ pending'.isPersistent = <<>>
                /\ pending'.persistentIncidents = <<>> ]_vars

C4_Witness ==
    /\ mapClickCount > 0
    /\ lastClickCount = mapClickCount
    /\ arrestData = <<>>
    /\ loads = 0
    /\ ~isPersistent
    /\ persistentIncidents = <<>>

\* C5: switching to the news tab while FROZEN discards the snapshot and
\* returns the state to LIVE; switching while LIVE leaves the state, the
\* snapshot and any enqueued change of them as they are.
C5_ExternalClear ==
    [][ handleTabSwitch("news") =>
          IF isPersistent
          THEN ~isPersistent' /\ persistentIncidents' = <<>>
          ELSE /\ UNCHANGED <<isPersistent, persistentIncidents>>
               /\ pending'.isPersistent = pending.isPersistent
               /\ pending'.persistentIncidents = pending.persistentIncidents ]_vars

\* on the news tab after the one click was processed: LIVE, snapshot gone,
\* nearbyIncidents still the result of before the pause and its
\* recomputation for the current position enqueued
C5_Witness ==
    /\ activeTab = "news"
    /\ ~isPersistent
    /\ persistentIncidents = <<>>
    /\ mapClickCount = 1
    /\ lastClickCount = 1
    /\ nearbyIncidents # <<>>
    /\ nearbyIncidents # LiveResult(cursorPosition, arrestData)
    /\ pendingCursor = <<>>
    /\ pending.nearbyIncidents = <<LiveResult(cursorPosition, arrestData)>>
    /\ pending.isPersistent = <<>>

\* C6: while LIVE, once every enqueued update has been rendered and every due
\* effect has run, the displayed result is the query result for the current
\* cursor position and point set (empty for an absent position or an empty
\* point set), also after a return from FROZEN.
C6_LiveDisplayIsQuery ==
    (Quiescent /\ ~isPersistent)
        => currentIncidents = LiveResult(cursorPosition, arrestData)

C6_Witness ==
    /\ Quiescent
    /\ ~isPersistent
    /\ mapClickCount = 2
    /\ lastClickCount = 2
    /\ Len(currentIncidents) > 1
    /\ activeTab = "incidents"

\* C7: the snapshot taken by a freezing map click is the query result for the
\* last pointer position that arrived before the click.
C7_SnapshotIsLastLocation ==
    [][ (MapClicked /\ ~isPersistent /\ pending'.isPersistent = <<TRUE>>)
          => pending'.persistentIncidents
               = <<LiveResult(LastArrived, arrestData)>> ]_vars

----------------------------------------------------------------------------
(* Properties of clusterPoints, checked under ClusterSpec *)

\* the input indices of a cluster
Members(cluster) == {cluster[m] : m \in 1..Len(cluster)}

\* the indices assigned by the clusters before the k-th
AssignedBefore(k) == UNION {Members(clusters[j]) : j \in 1..(k - 1)}

\* squared coordinate distance of input points i and j
SqDist(i, j) ==
    (cpoints[i].lat - cpoints[j].lat) * (cpoints[i].lat - cpoints[j].lat)
    + (cpoints[i].lng - cpoints[j].lng) * (cpoints[i].lng - cpoints[j].lng)

RECURSIVE SumSizes(_, _)
SumSizes(cs, k) == IF k > Len(cs) THEN 0 ELSE Len(cs[k]) + SumSizes(cs, k + 1)

\* C8: the clusters partition the input: every input index is at exactly one
\* position of exactly one cluster, members are input indices, no cluster is
\* empty and the sizes sum to the number of points.
C8_ClustersPartitionInput ==
    cpc = "done" =>
        /\ \A i \in 1..Len(cpoints) :
             Cardinality({km \in UNION {{<<k, m>> : m \in 1..Len(clusters[k])}
                                          : k \in 1..Len(clusters)} :
                            clusters[km[1]][km[2]] = i}) = 1
        /\ \A k \in 1..Len(clusters) :
             /\ Len(clusters[k]) > 0
             /\ Members(clusters[k]) \subseteq 1..Len(cpoints)
        /\ SumSizes(clusters, 1) = Len(cpoints)

C8_Witness ==
    /\ cpc = "done"
    /\ Len(cpoints) = MaxPoints
    /\ Len(clusters) = 2
    /\ \E k \in 1..Len(clusters) : Len(clusters[k]) > 1

\* C9: every member of a cluster is within the radius of the cluster's seed,
\* its first member, and the seed is the first input index not assigned by an
\* earlier cluster.
C9_MembersWithinRadiusOfSeed ==
    cpc = "done" =>
        \A k \in 1..Len(clusters) :
            LET seed == clusters[k][1]
            IN /\ seed \notin AssignedBefore(k)
               /\ \A i \in (1..Len(cpoints)) \ AssignedBefore(k) : seed <= i
               /\ \A i \in Members(clusters[k]) :
                    SqDist(seed, i) <= cradius * cradius

C9_Witness ==
    /\ cpc = "done"
    /\ cradius > 0
    /\ \E k \in 1..Len(clusters) :
         /\ k > 1
         /\ Len(clusters[k]) > 1
         /\ \E i \in Members(clusters[k]) :
              SqDist(clusters[k][1], i) = cradius * cradius

\* C10: a point not assigned by an earlier cluster joins the cluster of a seed
\* if and only if its distance to the seed is at most the radius (so a point
\* near a non-seed member but farther than the radius from the seed lands in a
\* later cluster), and clusters come in the input order of their seeds.
C10_GreedySeedGrouping ==
    cpc = "done" =>
        /\ \A k \in 1..Len(clusters) :
             \A i \in (1..Len(cpoints)) \ AssignedBefore(k) :
                 (i \in Members(clusters[k]))
                     <=> (SqDist(clusters[k][1], i) <= cradius * cradius)
        /\ \A k \in 1..(Len(clusters) - 1) :
             clusters[k][1] < clusters[k + 1][1]

\* a point within the radius of a non-seed member of cluster k, farther than
\* the radius from its seed, is in a later cluster
C10_Witness ==
    /\ cpc = "done"
    /\ \E k \in 1..Len(clusters) : \E later \in (k + 1)..Len(clusters) :
         \E m \in Members(clusters[k]) \ {clusters[k][1]} :
            \E i \in Members(clusters[later]) :
                /\ SqDist(m, i) <= cradius * cradius
                /\ SqDist(clusters[k][1], i) > cradius * cradius

----------------------------------------------------------------------------
(* The zoom-to-radius chains, applied to two zooms *)

\* the zooms handed to the chains: integers, and NaN for the position of the
\* first CursorTracker, which carries no zoom (zoom is undefined)
TableZooms == ((0 - NegZooms)..MaxZoom) \cup {NaN}

RadiusInit ==
    /\ AppInit
    /\ ClusterIdle
    /\ QueryIdle
    /\ HeatIdle
    /\ PartsIdle
    /\ rz1 \in TableZooms
    /\ rz2 \in TableZooms
    /\ rloc \in Locations
    /\ rdata \in RawFiles
    /\ rout = <<>>
    /\ rpc = "input"

\* getClusterRadius, and the cursor effect up to `nearby`, for both zooms
ApplyRadius ==
    /\ rpc = "input"
    /\ rout' = [cluster1 |-> getClusterRadius(rz1),
                cluster2 |-> getClusterRadius(rz2),
                search1 |-> searchRadius(rz1),
                search2 |-> searchRadius(rz2),
                nearby1 |-> NearbyOf(Pos(rloc.lat, rloc.lng, rz1),
                                     ValidPoints(rdata)),
                nearby2 |-> NearbyOf(Pos(rloc.lat, rloc.lng, rz2),
                                     ValidPoints(rdata))]
    /\ rpc' = "done"
    /\ UNCHANGED <<appVars, clusterVars, rz1, rz2, rloc, rdata,
                   queryVars, heatVars, partVars>>

RadiusNext == ApplyRadius

RadiusSpec == RadiusInit /\ [][RadiusNext]_vars

\* the entries of a sequence
Range(seq) == {seq[i] : i \in 1..Len(seq)}

\* C18: the clustering radius is 0.001 for zoom >= 10, 0.005 for zoom 8 and 9,
\* 0.02 for zoom 6 and 7, 0.05 for zoom 4 and 5, and 0.1 for every other
\* zoom, negative and missing zooms included (radii in millidegrees).
C18_ClusterRadiusTable ==
    rpc = "done" =>
        /\ (~isNaN(rz1) /\ rz1 >= 10) => rout.cluster1 = 1
        /\ rz1 \in 8..9 => rout.cluster1 = 5
        /\ rz1 \in 6..7 => rout.cluster1 = 20
        /\ rz1 \in 4..5 => rout.cluster1 = 50
        /\ (isNaN(rz1) \/ rz1 < 4) => rout.cluster1 = 100

C18_Witness ==
    /\ rpc = "done"
    /\ rz1 < 0
    /\ rout.cluster1 = 100

C20_RadiusMonotone ==
    (rpc = "done" /\ ~isNaN(rz1) /\ ~isNaN(rz2) /\ rz1 <= rz2) =>
        /\ rout.cluster1 >= rout.cluster2
        /\ rout.search1 >= rout.search2
        /\ Range(rout.nearby2) \subseteq Range(rout.nearby1)

C20_Witness ==
    /\ rpc = "done"
    /\ ~isNaN(rz1)
    /\ ~isNaN(rz2)
    /\ rz1 < rz2
    /\ rout.cluster1 > rout.cluster2
    /\ rout.search1 > rout.search2
    /\ rout.nearby2 # <<>>
    /\ Len(rout.nearby2) < Len(rout.nearby1)

----------------------------------------------------------------------------
(* The heat map effect of HeatMapLayer, in its two variants *)

\* arrestData.map(arrest => ({lat: parseFloat(..), lng: parseFloat(..), data}))
\*           .filter(point => !isNaN(point.lat) && !isNaN(point.lng))
HeatPoints(data) ==
    SelectSeq([i \in 1..Len(data) |->
                  [lat |-> data[i].latitude, lng |-> data[i].longitude,
                   data |-> data[i]]],
              LAMBDA point : ~isNaN(point.lat) /\ ~isNaN(point.lng))

\* cluster.reduce((sum, p) => sum + p, 0) over a sequence of numbers
RECURSIVE ReduceSum(_)
ReduceSum(values) ==
    IF values = <<>> THEN 0
    ELSE ReduceSum(SubSeq(values, 1, Len(values) - 1)) + values[Len(values)]

\* the quotient a / b, kept exact
Quot(a, b) == [num |-> a, den |-> b]

\* createHeatMapData: [centerLat, centerLng, intensity] per cluster; a cluster
\* is the sequence of the indices of its members in points
createHeatMapData(points, cls) ==
    [k \in 1..Len(cls) |->
        [centerLat |-> Quot(ReduceSum([m \in 1..Len(cls[k]) |->
                                          points[cls[k][m]].lat]),
                            Len(cls[k])),
         centerLng |-> Quot(ReduceSum([m \in 1..Len(cls[k]) |->
                                          points[cls[k][m]].lng]),
                            Len(cls[k])),
         intensity |-> Len(cls[k])]]

\* rows of the arrest file near one another: 0.001 and 0.03 degrees apart,
\* and one row with an unparsable latitude
HeatRows ==
    { [latitude |-> 40000, longitude |-> -74000, url |-> "a"],
      [latitude |-> 40001, longitude |-> -74000, url |-> "b"],
      [latitude |-> 40030, longitude |-> -74000, url |-> "c"],
      [latitude |-> NaN,   longitude |-> -74000, url |-> "e"] }

HeatFiles == UNION {[1..n -> HeatRows] : n \in 0..MaxHeatRows}

\* the zooms the map can report
HeatZooms == 0..MaxZoom

HeatInit ==
    /\ AppInit
    /\ ClusterIdle
    /\ RadiusIdle
    /\ QueryIdle
    /\ PartsIdle
    /\ hvariant \in {1, 2}
    /\ hdata \in HeatFiles
    /\ hzoom \in HeatZooms
    /\ heatMapData = <<>>
    /\ hpc = "input"

\* the effect of the first HeatMapLayer (MapComponent.js:98-142): cluster at
\* the radius of currentZoom and hand the cluster triples to HeatLayer
HeatMapLayerEffect ==
    /\ hpc = "input"
    /\ hvariant = 1
    /\ IF Len(hdata) = 0
       THEN /\ hpc' = "skipped"
            /\ UNCHANGED heatMapData
       ELSE LET points == HeatPoints(hdata)
                radius == getClusterRadius(hzoom)
            IN /\ heatMapData' =
                      createHeatMapData(points, clusterPoints(points, radius))
               /\ hpc' = "done"
    /\ UNCHANGED <<appVars, clusterVars, radiusVars, queryVars,
                   hvariant, hdata, hzoom, partVars>>

\* the effect of the second HeatMapLayer (MapComponent.js:311-351, enabled
\* left at its default true): hand the points themselves to HeatLayer
HeatMapLayerEffect2 ==
    /\ hpc = "input"
    /\ hvariant = 2
    /\ IF Len(hdata) = 0
       THEN /\ hpc' = "skipped"
            /\ UNCHANGED heatMapData
       ELSE /\ heatMapData' = HeatPoints(hdata)
            /\ hpc' = "done"
    /\ UNCHANGED <<appVars, clusterVars, radiusVars, queryVars,
                   hvariant, hdata, hzoom, partVars>>

HeatNext == HeatMapLayerEffect \/ HeatMapLayerEffect2

HeatSpec == HeatInit /\ [][HeatNext]_vars

\* an entry of the shape [centerLat, centerLng, intensity]
IsTriple(entry) == DOMAIN entry = {"centerLat", "centerLng", "intensity"}

\* C11: the array handed to HeatLayer holds one [lat, lng, intensity] triple
\* per cluster of the valid points at the clustering radius of the zoom:
\* intensity is the number of members, lat and lng are the means of the
\* members' coordinates, and the intensities sum to the number of valid points.
C11_HeatDataIsClusterTriples ==
    hpc = "done" =>
        LET points == HeatPoints(hdata)
            cls == clusterPoints(points, getClusterRadius(hzoom))
        IN /\ Len(heatMapData) = Len(cls)
           /\ \A k \in 1..Len(heatMapData) :
                /\ IsTriple(heatMapData[k])
                /\ heatMapData[k].intensity = Len(cls[k])
                /\ heatMapData[k].centerLat.num * Len(cls[k]) =
                     heatMapData[k].centerLat.den
                       * ReduceSum([m \in 1..Len(cls[k]) |-> points[cls[k][m]].lat])
                /\ heatMapData[k].centerLng.num * Len(cls[k]) =
                     heatMapData[k].centerLng.den
                       * ReduceSum([m \in 1..Len(cls[k]) |-> points[cls[k][m]].lng])
           /\ (\A k \in 1..Len(heatMapData) : IsTriple(heatMapData[k]))
                => ReduceSum([k \in 1..Len(heatMapData) |->
                                 heatMapData[k].intensity]) = Len(points)

----------------------------------------------------------------------------
(* The cursor effect of UnifiedPanel, run once in state LIVE *)

\* rows of the arrest file: two pairs with one url (the later row of each is
\* the nearer to 40.0,-74.0 in metres), an empty url, an unparsable latitude
QueryRows ==
    { [latitude |-> 40000, longitude |-> -74000, url |-> "a"],
      [latitude |-> 40090, longitude |-> -74000, url |-> "b"],
      [latitude |-> 40000, longitude |-> -73900, url |-> "b"],
      [latitude |-> 41000, longitude |-> -75000, url |-> ""],
      [latitude |-> 40000, longitude |-> -74100, url |-> ""],
      [latitude |-> NaN,   longitude |-> -74000, url |-> "a"] }

QueryFiles == UNION {[1..n -> QueryRows] : n \in 0..MaxQueryRows}

\* n rows with n urls on the meridian of 40.0,-74.0, 0.001 degree apart: the
\* farthest first, then the others from the nearest on
DenseFile(n) ==
    [i \in 1..n |->
        [latitude |-> 40000 + (IF i = 1 THEN n ELSE i - 1),
         longitude |-> -74000,
         url |-> ToString(i)]]

DenseFiles == {DenseFile(n) : n \in maxResults..(maxResults + DenseExtra)}

\* one zoom for each branch of the searchRadius chain, and no zoom
QueryZooms == {2, 5, 7, 9, 11, 12, NaN}

QueryPositions ==
    {Null} \cup {Pos(loc.lat, loc.lng, zoom) : loc \in Locations, zoom \in QueryZooms}

\* cursorPosition and arrestData as the effect can see them
QueryInputs ==
    {[pos |-> pos, data |-> data] : pos \in QueryPositions, data \in QueryFiles}
    \cup {[pos |-> Pos(40000, -74000, zoom), data |-> data] :
            zoom \in QueryZooms, data \in DenseFiles}

QueryInit ==
    /\ AppInit
    /\ ClusterIdle
    /\ RadiusIdle
    /\ HeatIdle
    /\ PartsIdle
    /\ \E input \in QueryInputs :
         /\ qpos = input.pos
         /\ qdata = input.data
    /\ qresult = <<>>
    /\ qpc = "input"

\* the cursor effect of a render with isPersistent false, and the render of
\* its setNearbyIncidents
RunCursorEffect ==
    /\ qpc = "input"
    /\ LET r == [cursorPosition |-> qpos, arrestData |-> qdata,
                 onMapClick |-> 0, nearbyIncidents |-> <<>>,
                 isPersistent |-> FALSE, lastClickCount |-> 0]
       IN qresult' = Apply(CursorEffect(r, NoUpdates).nearbyIncidents, <<>>)
    /\ qpc' = "done"
    /\ UNCHANGED <<appVars, clusterVars, radiusVars, qpos, qdata, heatVars,
                   partVars>>

QueryNext == RunCursorEffect

QuerySpec == QueryInit /\ [][QueryNext]_vars

\* the query ran: the effect passed its guards
QueryRan == qpc = "done" /\ ~qpos.isNull /\ qdata # <<>>

\* squared coordinate-difference distance of a row to the query position
SqDegrees(row) ==
    (qpos.lat - row.latitude) * (qpos.lat - row.latitude)
      + (qpos.lng - row.longitude) * (qpos.lng - row.longitude)

\* the rows with numeric coordinates whose coordinate-difference distance to
\* the query position is at most the search radius of the zoom, input order
QInRange ==
    SelectSeq(qdata, LAMBDA row :
        /\ ~isNaN(row.latitude)
        /\ ~isNaN(row.longitude)
        /\ SqDegrees(row) <= searchRadius(qpos.zoom) * searchRadius(qpos.zoom))

\* a result entry is a given row
IsRow(entry, row) ==
    /\ entry.latitude = row.latitude
    /\ entry.longitude = row.longitude
    /\ entry.url = row.url

C15_UniqueUrls ==
    QueryRan =>
        \A i, j \in 1..Len(qresult) :
            i # j => qresult[i].url # qresult[j].url

C15_Witness ==
    /\ QueryRan
    /\ Len(qresult) = 2
    /\ LET inRange == QInRange
       IN /\ Len(inRange) = 3
          /\ inRange[1].url = ""
          /\ inRange[3].url = ""
          /\ inRange[1] # inRange[3]

\* C16: the entry the result holds for a url is the first row within the
\* radius, in input order, that has this url, also when a later row with the
\* url is nearer to the position.
C16_FirstOccurrenceSurvives ==
    QueryRan =>
        LET inRange == QInRange
        IN \A i \in 1..Len(qresult) :
              \E j \in 1..Len(inRange) :
                  /\ IsRow(qresult[i], inRange[j])
                  /\ \A k \in 1..(j - 1) : inRange[k].url # qresult[i].url

C16_Witness ==
    /\ QueryRan
    /\ Len(qdata) <= MaxQueryRows + 1
    /\ LET inRange == QInRange
       IN \E i \in 1..Len(qresult) :
            \E j, k \in 1..Len(inRange) :
               /\ j < k
               /\ IsRow(qresult[i], inRange[j])
               /\ inRange[k].url = inRange[j].url
               /\ calculateDistance(qpos.lat, qpos.lng,
                                    inRange[k].latitude, inRange[k].longitude)
                    < qresult[i].distance

----------------------------------------------------------------------------
(* Empty results in state LIVE *)

\* no row of the data has numeric coordinates within the search radius of
\* the position
NoneInRange(pos, data) ==
    \A i \in 1..Len(data) :
        \/ isNaN(data[i].latitude)
        \/ isNaN(data[i].longitude)
        \/ ~WithinRadius(pos.lat, pos.lng, data[i].latitude, data[i].longitude,
                         searchRadius(pos.zoom))

\* the rendered position is absent, the data is empty, or nothing is in range
EmptyCase ==
    \/ cursorPosition.isNull
    \/ arrestData = <<>>
    \/ NoneInRange(cursorPosition, arrestData)

\* a step that runs the effects that are due
RunsDueEffects ==
    \/ FlushPassiveEffects
    \/ Render
    \/ handleMapClick
    \/ \E newTab \in {"incidents", "news"} : handleTabSwitch(newTab)

\* C17: in state LIVE, when the position is absent, the data is empty or no
\* row is within the search radius, the cursor effect sets nearbyIncidents to
\* the empty list, whatever it held before, and once nothing is pending the
\* live result is empty.
C17_EmptyCasesResetLiveResult ==
    [][ /\ (Quiescent' /\ ~isPersistent' /\ EmptyCase')
            => nearbyIncidents' = <<>>
        /\ (effCursor /\ ~isPersistent /\ EmptyCase /\ RunsDueEffects)
            => \/ pending'.nearbyIncidents = << <<>> >>
               \/ (Render /\ nearbyIncidents' = <<>>) ]_vars

C17_Witness ==
    /\ ~isPersistent
    /\ pending.isPersistent = <<>>
    /\ nearbyIncidents # <<>>
    /\ pending.nearbyIncidents = << <<>> >>
    /\ ~cursorPosition.isNull
    /\ arrestData # <<>>
    /\ NoneInRange(cursorPosition, arrestData)

----------------------------------------------------------------------------
(* Order of sort and truncation *)

\* C22: the cut to maxResults entries comes after the distance sort: a row
\* within the radius that is the first of its url and is not in the result
\* has a reported distance no smaller than that of any entry of the result.
C22_TruncationKeepsNearest ==
    QueryRan =>
        LET inRange == QInRange
        IN \A j \in 1..Len(inRange) :
              ( /\ \A k \in 1..(j - 1) : inRange[k].url # inRange[j].url
                /\ ~\E i \in 1..Len(qresult) : IsRow(qresult[i], inRange[j]) )
              => \A i \in 1..Len(qresult) :
                    qresult[i].distance <=
                        calculateDistance(qpos.lat, qpos.lng,
                                          inRange[j].latitude, inRange[j].longitude)

C22_Witness ==
    /\ QueryRan
    /\ Len(qresult) = maxResults
    /\ Len(qdata) > maxResults
    /\ LET inRange == QInRange
       IN /\ Len(inRange) = Len(qdata)
          /\ ~\E i \in 1..Len(qresult) : IsRow(qresult[i], qdata[1])
          /\ IsRow(qresult[1], qdata[2])

----------------------------------------------------------------------------
(* Mode, snapshot and click counting of the selection state *)

\* C24: in every state the mode is FROZEN exactly if the snapshot is
\* non-empty; while LIVE the snapshot is empty.
C24_ModeAgreesWithSnapshot ==
    isPersistent <=> persistentIncidents # <<>>

C24_Witness ==
    /\ isPersistent
    /\ persistentIncidents # <<>>
    /\ pending.isPersistent = <<FALSE>>
    /\ pending.persistentIncidents = << <<>> >>
    /\ activeTab = "incidents"

\* C25: in every FROZEN state nearbyIncidents is non-empty and equal to the
\* snapshot.
C25_FrozenKeepsLiveResult ==
    isPersistent =>
        /\ nearbyIncidents # <<>>
        /\ nearbyIncidents = persistentIncidents

\* the mode once the enqueued updates are rendered
ModeAfterRender == Apply(pending.isPersistent, isPersistent)

\* C26: the click counter only grows; lastClickCount never exceeds it and
\* equals it once nothing is pending; a step without a new click enqueues no
\* change of mode; every click that finds a non-empty nearbyIncidents changes
\* the mode that the next render commits.
C26_OneCommitPerClick ==
    [][ /\ mapClickCount' >= mapClickCount
        /\ lastClickCount' <= mapClickCount'
        /\ Quiescent' => lastClickCount' = mapClickCount'
        /\ ~MapClicked =>
              \/ pending'.isPersistent = pending.isPersistent
              \/ pending'.isPersistent = <<>>
        /\ (MapClicked /\ nearbyIncidents # <<>>) =>
              ModeAfterRender' # ModeAfterRender ]_vars

----------------------------------------------------------------------------
(* The arrest file from its text to the heat map and the query *)

\* lines of a file this long are drawn
MaxLines == 3

\* parseFloat on the coordinate texts of the model, in millidegrees: the
\* longest numeric prefix of the text is its value, a text without one is NaN
parseFloat(text) ==
    CASE text = "40.000"  -> 40000
      [] text = "40.001"  -> 40001
      [] text = "40.030"  -> 40030
      [] text = "40.000N" -> 40000
      [] text = "-74.000" -> -74000
      [] OTHER -> NaN

\* the lines after the header: two good rows, a latitude that is no number,
\* a row that ends before its longitude, a latitude with a trailing letter,
\* and an empty line
FileLines ==
    { [blank |-> FALSE, latitude |-> "40.000",  longitude |-> "-74.000", url |-> "a"],
      [blank |-> FALSE, latitude |-> "40.001",  longitude |-> "-74.000", url |-> "b"],
      [blank |-> FALSE, latitude |-> "abc",     longitude |-> "-74.000", url |-> "c"],
      [blank |-> FALSE, latitude |-> "40.030",  longitude |-> "",        url |-> "d"],
      [blank |-> FALSE, latitude |-> "40.000N", longitude |-> "-74.000", url |-> "e"],
      [blank |-> TRUE,  latitude |-> "",        longitude |-> "",        url |-> ""] }

ArrestFiles == UNION {[1..n -> FileLines] : n \in 0..MaxLines}

\* what the map callback returns for an empty line
NullArrest == [isNull |-> TRUE, latitude |-> "", longitude |-> "", url |-> ""]

\* lines.slice(1).map(line => ...): null for an empty line, else the object
\* of the trimmed field texts
ArrestLines(lines) ==
    [i \in 1..Len(lines) |->
        IF lines[i].blank THEN NullArrest
        ELSE [isNull |-> FALSE, latitude |-> lines[i].latitude,
              longitude |-> lines[i].longitude, url |-> lines[i].url]]

\* the filter without its longitude conditions
ArrestFilterLatitudeOnly(rows) ==
    SelectSeq(rows, LAMBDA arrest :
        /\ ~arrest.isNull
        /\ arrest.latitude # ""
        /\ ~isNaN(parseFloat(arrest.latitude)))

\* .filter(arrest => arrest && arrest.latitude && arrest.longitude &&
\*         !isNaN(parseFloat(arrest.latitude)) &&
\*         !isNaN(parseFloat(arrest.longitude)))
ArrestFilter(rows) ==
    SelectSeq(rows, LAMBDA arrest :
        /\ ~arrest.isNull
        /\ arrest.latitude # ""
        /\ arrest.longitude # ""
        /\ ~isNaN(parseFloat(arrest.latitude))
        /\ ~isNaN(parseFloat(arrest.longitude)))

\* the coordinates of arrestData as its users read them:
\* parseFloat(arrest.latitude), parseFloat(arrest.longitude)
ParsedRows(data) ==
    [i \in 1..Len(data) |->
        [latitude |-> parseFloat(data[i].latitude),
         longitude |-> parseFloat(data[i].longitude),
         url |-> data[i].url]]

\* arrest.latitude of a null entry is a TypeError
Throws(data) == \E i \in 1..Len(data) : data[i].isNull

\* nothing computed yet
NoOutput ==
    [points |-> <<>>, clusters |-> <<>>, heat |-> <<>>,
     queried |-> <<>>, nearby |-> <<>>, error |-> FALSE]

\* the zooms the map is at when the effects run
LoadZooms == {4, 12}

LoadInit ==
    /\ AppInit
    /\ ClusterIdle
    /\ RadiusIdle
    /\ QueryIdle
    /\ HeatIdle
    /\ LayerIdle
    /\ NewsIdle
    /\ PageIdle
    /\ VisitIdle
    /\ lraw \in ArrestFiles
    /\ ldata = <<>>
    /\ lout = NoOutput
    /\ lran = {}

\* loadArrestData (App.js:225-258): the lines become arrestData
LoadArrestFile ==
    /\ "load" \notin lran
    /\ ldata' = ArrestFilter(ArrestLines(lraw))
    /\ lran' = lran \cup {"load"}
    /\ UNCHANGED <<appVars, clusterVars, radiusVars, queryVars, heatVars,
                   lraw, lout, layerVars, newsVars, pageVars, visitVars>>

\* the effect of either HeatMapLayer on the loaded data
LoadHeatMapLayer(variant, zoom) ==
    /\ "load" \in lran
    /\ "heat" \notin lran
    /\ lran' = lran \cup {"heat"}
    /\ IF Len(ldata) = 0 THEN UNCHANGED lout
       ELSE IF Throws(ldata) THEN lout' = [lout EXCEPT !.error = TRUE]
       ELSE LET points == HeatPoints(ParsedRows(ldata))
                cls == clusterPoints(points, getClusterRadius(zoom))
            IN IF variant = 1
               THEN lout' = [lout EXCEPT !.points = points,
                                         !.clusters = cls,
                                         !.heat = createHeatMapData(points, cls)]
               ELSE lout' = [lout EXCEPT !.points = points]
    /\ UNCHANGED <<appVars, clusterVars, radiusVars, queryVars, heatVars,
                   lraw, ldata, layerVars, newsVars, pageVars, visitVars>>

\* the cursor effect of UnifiedPanel on the loaded data, pointer on row a
LoadCursorEffect(zoom) ==
    /\ "load" \in lran
    /\ "query" \notin lran
    /\ lran' = lran \cup {"query"}
    /\ IF Len(ldata) # 0 /\ Throws(ldata)
       THEN lout' = [lout EXCEPT !.error = TRUE]
       ELSE LET r == [cursorPosition |-> Pos(40000, -74000, zoom),
                      arrestData |-> ParsedRows(ldata),
                      onMapClick |-> 0, nearbyIncidents |-> <<>>,
                      isPersistent |-> FALSE, lastClickCount |-> 0]
            IN lout' = [lout EXCEPT
                  !.queried = ValidPoints(ParsedRows(ldata)),
                  !.nearby = Apply(CursorEffect(r, NoUpdates).nearbyIncidents,
                                   <<>>)]
    /\ UNCHANGED <<appVars, clusterVars, radiusVars, queryVars, heatVars,
                   lraw, ldata, layerVars, newsVars, pageVars, visitVars>>

LoadNext ==
    \/ LoadArrestFile
    \/ \E variant \in {1, 2}, zoom \in LoadZooms : LoadHeatMapLayer(variant, zoom)
    \/ \E zoom \in LoadZooms : LoadCursorEffect(zoom)

LoadSpec == LoadInit /\ [][LoadNext]_vars

\* a line whose latitude or longitude has no numeric value
Unparsable(line) ==
    \/ isNaN(parseFloat(line.latitude))
    \/ isNaN(parseFloat(line.longitude))

\* the urls of the unparsable lines of the file
DroppedUrls ==
    {lraw[i].url : i \in {j \in 1..Len(lraw) :
                            ~lraw[j].blank /\ Unparsable(lraw[j])}}

\* a mean of latitudes, or of longitudes, of numbers on the globe
OnGlobe(mean, limit) ==
    /\ mean.num <= limit * mean.den
    /\ mean.num >= (0 - limit) * mean.den

\* C21: no row with an unparsable latitude or longitude reaches clustering or
\* the query.  arrestData holds no empty entry and no row of an unparsable
\* line; every point handed to clusterPoints and to the query filter has
\* numeric coordinates; no cluster, heat map triple or query result holds
\* such a row; and no effect throws.
C21_UnparsableRowsDropped ==
    /\ ~lout.error
    /\ \A i \in 1..Len(ldata) :
         /\ ~ldata[i].isNull
         /\ ldata[i].url \notin DroppedUrls
    /\ \A i \in 1..Len(lout.points) :
         /\ ~isNaN(lout.points[i].lat)
         /\ ~isNaN(lout.points[i].lng)
         /\ lout.points[i].data.url \notin DroppedUrls
    /\ \A k \in 1..Len(lout.clusters) :
         \A m \in 1..Len(lout.clusters[k]) :
            lout.clusters[k][m] \in 1..Len(lout.points)
    /\ \A k \in 1..Len(lout.heat) :
         /\ OnGlobe(lout.heat[k].centerLat, 90000)
         /\ OnGlobe(lout.heat[k].centerLng, 180000)
    /\ \A i \in 1..Len(lout.queried) :
         /\ ~isNaN(lout.queried[i].latitude)
         /\ ~isNaN(lout.queried[i].longitude)
    /\ \A i \in 1..Len(lout.nearby) :
         /\ ~isNaN(lout.nearby[i].latitude)
         /\ ~isNaN(lout.nearby[i].longitude)
         /\ ~isNaN(lout.nearby[i].distance)
         /\ lout.nearby[i].url \notin DroppedUrls

\* a file with an unparsable row, an empty line and a good row has gone
\* through the loader, a clustering heat map effect and the query
C21_Witness ==
    /\ lran = {"load", "heat", "query"}
    /\ DroppedUrls # {}
    /\ \E i \in 1..Len(lraw) : lraw[i].blank
    /\ lout.heat # <<>>
    /\ lout.nearby # <<>>

----------------------------------------------------------------------------
(* The life of one HeatMapLayer on the map *)

\* data deliveries and zoom changes of one run
MaxLayerEvents == 3

\* the arrest data a load can deliver
LayerFiles ==
    { <<>>,
      << [latitude |-> 40000, longitude |-> -74000, url |-> "a"],
         [latitude |-> 40030, longitude |-> -74000, url |-> "c"] >>,
      << [latitude |-> 40000, longitude |-> -74000, url |-> "a"],
         [latitude |-> 40001, longitude |-> -74000, url |-> "b"],
         [latitude |-> 40030, longitude |-> -74000, url |-> "c"] >> }

\* the zooms the user can go to
LayerZooms == {4, 8, 12}

\* heatLayerRef.current when it is null
NoLayer == 0

\* the array the effect hands to HeatLayer: the cluster triples in the first
\* HeatMapLayer, the points in the second
LayerData(variant, data, zoom) ==
    LET points == HeatPoints(data)
    IN IF variant = 1
       THEN createHeatMapData(points,
                              clusterPoints(points, getClusterRadius(zoom)))
       ELSE points

\* a removeLayer that leaves the layer on the map
removeLayerKeeps(layers, id) == layers

\* map.removeLayer(layer); removing a layer that is not on the map does nothing
removeLayer(layers, id) == {layer \in layers : layer.id # id}

\* the component is mounted and its mount effects have run: with data, the
\* first layer is on the map; without, the effect returned early
LayerInit ==
    /\ AppInit
    /\ ClusterIdle
    /\ RadiusIdle
    /\ QueryIdle
    /\ HeatIdle
    /\ LoadIdle
    /\ NewsIdle
    /\ PageIdle
    /\ VisitIdle
    /\ layerVariant \in {1, 2}
    /\ layerArrestData \in LayerFiles
    /\ pendingArrestData = <<>>
    /\ layerMapZoom = InitialZoom
    /\ currentZoom = InitialZoom
    /\ pendingZoom = <<>>
    /\ IF Len(layerArrestData) = 0
       THEN /\ mapLayers = {}
            /\ heatLayerRef = NoLayer
            /\ layerCleanup = FALSE
            /\ layersCreated = 0
       ELSE /\ mapLayers = {[id |-> 1,
                             data |-> LayerData(layerVariant, layerArrestData,
                                                InitialZoom)]}
            /\ heatLayerRef = 1
            /\ layerCleanup = TRUE
            /\ layersCreated = 1
    /\ layerEffectDue = FALSE
    /\ layerPc = "idle"
    /\ layerZoomed = FALSE
    /\ layerEvents = 0

\* setArrestData(arrestData) in App: a new array for the arrestData prop
LayerSetArrestData(file) ==
    /\ layerPc = "idle"
    /\ layerEvents < MaxLayerEvents
    /\ layerEvents' = layerEvents + 1
    /\ pendingArrestData' = Append(pendingArrestData, file)
    /\ UNCHANGED <<appVars, clusterVars, radiusVars, queryVars, heatVars,
                   loadVars, newsVars, pageVars, visitVars,
                   layerVariant, layerArrestData, layerMapZoom, currentZoom,
                   pendingZoom, mapLayers, heatLayerRef, layerCleanup,
                   layerEffectDue, layerPc, layersCreated, layerZoomed>>

\* the map ends a zoom change: 'zoomend' reaches handleZoomEnd, which the
\* first HeatMapLayer has registered and the second has not
LayerZoomEnd(zoom) ==
    /\ layerPc = "idle"
    /\ layerEvents < MaxLayerEvents
    /\ zoom # layerMapZoom
    /\ layerEvents' = layerEvents + 1
    /\ layerMapZoom' = zoom
    /\ layerZoomed' = TRUE
    /\ pendingZoom' = IF layerVariant = 1 THEN Append(pendingZoom, zoom)
                      ELSE pendingZoom
    /\ UNCHANGED <<appVars, clusterVars, radiusVars, queryVars, heatVars,
                   loadVars, newsVars, pageVars, visitVars,
                   layerVariant, layerArrestData, pendingArrestData,
                   currentZoom, mapLayers, heatLayerRef, layerCleanup,
                   layerEffectDue, layerPc, layersCreated>>

\* a render with the delivered data, the enqueued zooms, or both; the effect
\* is due when a dependency differs: [arrestData, currentZoom, map] in the
\* first HeatMapLayer, [arrestData, enabled] in the second
LayerRender(takeData, takeZoom) ==
    /\ layerPc = "idle"
    /\ ~layerEffectDue
    /\ takeData => pendingArrestData # <<>>
    /\ takeZoom => pendingZoom # <<>>
    /\ takeData \/ takeZoom
    /\ IF takeData
       THEN /\ layerArrestData' = pendingArrestData[Len(pendingArrestData)]
            /\ pendingArrestData' = <<>>
       ELSE UNCHANGED <<layerArrestData, pendingArrestData>>
    /\ IF takeZoom
       THEN /\ currentZoom' = pendingZoom[Len(pendingZoom)]
            /\ pendingZoom' = <<>>
       ELSE UNCHANGED <<currentZoom, pendingZoom>>
    /\ layerEffectDue' = \/ takeData
                         \/ layerVariant = 1 /\ currentZoom' # currentZoom
    /\ UNCHANGED <<appVars, clusterVars, radiusVars, queryVars, heatVars,
                   loadVars, newsVars, pageVars, visitVars,
                   layerVariant, layerMapZoom, mapLayers, heatLayerRef,
                   layerCleanup, layerPc, layersCreated, layerZoomed,
                   layerEvents>>

\* the due effect starts: the cleanup returned by its previous run
LayerEffectCleanup ==
    /\ layerPc = "idle"
    /\ layerEffectDue
    /\ layerEffectDue' = FALSE
    /\ layerPc' = "body"
    /\ layerCleanup' = FALSE
    /\ mapLayers' = IF layerCleanup /\ heatLayerRef # NoLayer
                    THEN removeLayer(mapLayers, heatLayerRef)
                    ELSE mapLayers
    /\ UNCHANGED <<appVars, clusterVars, radiusVars, queryVars, heatVars,
                   loadVars, newsVars, pageVars, visitVars,
                   layerVariant, layerArrestData, pendingArrestData,
                   layerMapZoom, currentZoom, pendingZoom, heatLayerRef,
                   layersCreated, layerZoomed, layerEvents>>

\* the effect body up to map.removeLayer(heatLayerRef.current); without data
\* it returns at once, and returns no cleanup
LayerEffectRemove ==
    /\ layerPc = "body"
    /\ IF Len(layerArrestData) = 0
       THEN /\ layerPc' = "idle"
            /\ UNCHANGED mapLayers
       ELSE /\ layerPc' = "add"
            /\ mapLayers' = IF heatLayerRef # NoLayer
                            THEN removeLayer(mapLayers, heatLayerRef)
                            ELSE mapLayers
    /\ UNCHANGED <<appVars, clusterVars, radiusVars, queryVars, heatVars,
                   loadVars, newsVars, pageVars, visitVars,
                   layerVariant, layerArrestData, pendingArrestData,
                   layerMapZoom, currentZoom, pendingZoom, heatLayerRef,
                   layerCleanup, layerEffectDue, layersCreated, layerZoomed,
                   layerEvents>>

\* heatLayerRef.current = HeatLayer(...); map.addLayer(heatLayerRef.current);
\* return the cleanup
LayerEffectAdd ==
    /\ layerPc = "add"
    /\ layerPc' = "idle"
    /\ layersCreated' = layersCreated + 1
    /\ heatLayerRef' = layersCreated + 1
    /\ mapLayers' = mapLayers \cup
          {[id |-> layersCreated + 1,
            data |-> LayerData(layerVariant, layerArrestData, currentZoom)]}
    /\ layerCleanup' = TRUE
    /\ UNCHANGED <<appVars, clusterVars, radiusVars, queryVars, heatVars,
                   loadVars, newsVars, pageVars, visitVars,
                   layerVariant, layerArrestData, pendingArrestData,
                   layerMapZoom, currentZoom, pendingZoom, layerEffectDue,
                   layerZoomed, layerEvents>>

\* the component unmounts: the cleanup of the last effect run
LayerUnmount ==
    /\ layerPc = "idle"
    /\ ~layerEffectDue
    /\ layerPc' = "unmounted"
    /\ layerCleanup' = FALSE
    /\ pendingArrestData' = <<>>
    /\ pendingZoom' = <<>>
    /\ mapLayers' = IF layerCleanup /\ heatLayerRef # NoLayer
                    THEN removeLayer(mapLayers, heatLayerRef)
                    ELSE mapLayers
    /\ UNCHANGED <<appVars, clusterVars, radiusVars, queryVars, heatVars,
                   loadVars, newsVars, pageVars, visitVars,
                   layerVariant, layerArrestData, layerMapZoom, currentZoom,
                   heatLayerRef, layerEffectDue, layersCreated, layerZoomed,
                   layerEvents>>

LayerNext ==
    \/ \E file \in LayerFiles : LayerSetArrestData(file)
    \/ \E zoom \in LayerZooms : LayerZoomEnd(zoom)
    \/ \E takeData, takeZoom \in BOOLEAN : LayerRender(takeData, takeZoom)
    \/ LayerEffectCleanup
    \/ LayerEffectRemove
    \/ LayerEffectAdd
    \/ LayerUnmount

LayerSpec == LayerInit /\ [][LayerNext]_vars

\* a zoom change has happened and everything it set off has run
ZoomProcessed ==
    /\ layerPc = "idle"
    /\ layerZoomed
    /\ ~layerEffectDue
    /\ pendingZoom = <<>>
    /\ pendingArrestData = <<>>
    /\ Len(layerArrestData) > 0

\* C23: after a zoom change has been processed, the heat layer on the map is
\* the one built from clusterPoints(points, getClusterRadius(zoom)) at the
\* zoom the map is at now.
C23_RebuiltAtNewZoom ==
    ZoomProcessed =>
        LET points == HeatPoints(layerArrestData)
            cls == clusterPoints(points, getClusterRadius(layerMapZoom))
        IN \E layer \in mapLayers :
              /\ mapLayers = {layer}
              /\ layer.data = createHeatMapData(points, cls)

\* C27: at most one heat layer is on the map at any point of any run,
\* inside the effect too, and none is left after the unmount.
C27_AtMostOneHeatLayer ==
    /\ Cardinality(mapLayers) <= 1
    /\ layerPc = "unmounted" => mapLayers = {}

\* a layer has been replaced by another and the component has unmounted
C27_Witness ==
    /\ layerPc = "unmounted"
    /\ layersCreated >= 2

----------------------------------------------------------------------------
(* The news list of UnifiedPanel and its load-more *)

\* the longest list of articles the two files deliver
MaxArticles == 45

\* scroll events near the bottom of the list in one run
MaxNewsScrolls == 3

\* the smaller of two numbers
Min(a, b) == IF a <= b THEN a ELSE b

\* array.slice(from, to)
Slice(array, from, to) == SubSeq(array, from + 1, Min(to, Len(array)))

\* combinedArticles: n articles, newest first, named by their rank
Articles(n) == [i \in 1..n |-> i]

\* the lengths of combinedArticles
ArticleCounts == {0, PageSize, MaxArticles}

\* the news state after the render of a sequence of updates, in the order of
\* their calls
RECURSIVE NewsApply(_, _)
NewsApply(state, updates) ==
    IF updates = <<>> THEN state
    ELSE LET u == Head(updates)
             next ==
               CASE u.op = "setAllArticles" ->
                      [state EXCEPT !.allArticles = u.value]
                 [] u.op = "setArticles" ->
                      [state EXCEPT !.articles = u.value]
                 [] u.op = "appendArticles" ->
                      [state EXCEPT !.articles = state.articles \o u.value]
                 [] u.op = "addCount" ->
                      [state EXCEPT !.count = state.count + PageSize]
                 [] u.op = "setLoadingMore" ->
                      [state EXCEPT !.loadingMore = u.value]
         IN NewsApply(next, Tail(updates))

NewsInit ==
    /\ AppInit
    /\ ClusterIdle
    /\ RadiusIdle
    /\ QueryIdle
    /\ HeatIdle
    /\ LoadIdle
    /\ LayerIdle
    /\ PageIdle
    /\ VisitIdle
    /\ allArticles = <<>>
    /\ articles = <<>>
    /\ displayedArticleCount = PageSize
    /\ loadingMoreArticles = FALSE
    /\ newsPending = <<>>
    /\ newsTimers = <<>>
    /\ newsPc = "fetching"
    /\ newsScrolls = 0

\* loadArticles resolves: setAllArticles(combinedArticles);
\* setArticles(combinedArticles.slice(0, 20))
ArticlesLoaded(n) ==
    /\ newsPc = "fetching"
    /\ newsPc' = "loaded"
    /\ newsPending' = newsPending \o
          << [op |-> "setAllArticles", value |-> Articles(n)],
             [op |-> "setArticles", value |-> Slice(Articles(n), 0, PageSize)] >>
    /\ UNCHANGED <<appVars, clusterVars, radiusVars, queryVars, heatVars,
                   loadVars, layerVars, pageVars, visitVars,
                   allArticles, articles, displayedArticleCount,
                   loadingMoreArticles, newsTimers, newsScrolls>>

\* handleArticlesScroll near the bottom: loadMoreArticles up to its await.
\* nextBatch is cut from the allArticles and displayedArticleCount of the
\* render the handler belongs to
handleArticlesScroll ==
    /\ newsScrolls < MaxNewsScrolls
    /\ newsScrolls' = newsScrolls + 1
    /\ IF loadingMoreArticles \/ displayedArticleCount >= Len(allArticles)
       THEN UNCHANGED <<newsPending, newsTimers>>
       ELSE /\ newsPending' = Append(newsPending,
                                 [op |-> "setLoadingMore", value |-> TRUE])
            /\ newsTimers' = Append(newsTimers,
                                 Slice(allArticles, displayedArticleCount,
                                       displayedArticleCount + PageSize))
    /\ UNCHANGED <<appVars, clusterVars, radiusVars, queryVars, heatVars,
                   loadVars, layerVars, pageVars, visitVars,
                   allArticles, articles, displayedArticleCount,
                   loadingMoreArticles, newsPc>>

\* the 300 ms of the oldest waiting loadMoreArticles are over
LoadMoreArticlesResumes ==
    /\ newsTimers # <<>>
    /\ newsTimers' = Tail(newsTimers)
    /\ newsPending' = newsPending \o
          << [op |-> "appendArticles", value |-> Head(newsTimers)],
             [op |-> "addCount", value |-> PageSize],
             [op |-> "setLoadingMore", value |-> FALSE] >>
    /\ UNCHANGED <<appVars, clusterVars, radiusVars, queryVars, heatVars,
                   loadVars, layerVars, pageVars, visitVars,
                   allArticles, articles, displayedArticleCount,
                   loadingMoreArticles, newsPc, newsScrolls>>

\* the scheduler renders the enqueued updates
NewsRender ==
    /\ newsPending # <<>>
    /\ LET next == NewsApply([allArticles |-> allArticles,
                              articles |-> articles,
                              count |-> displayedArticleCount,
                              loadingMore |-> loadingMoreArticles],
                             newsPending)
       IN /\ allArticles' = next.allArticles
          /\ articles' = next.articles
          /\ displayedArticleCount' = next.count
          /\ loadingMoreArticles' = next.loadingMore
    /\ newsPending' = <<>>
    /\ UNCHANGED <<appVars, clusterVars, radiusVars, queryVars, heatVars,
                   loadVars, layerVars, pageVars, visitVars,
                   newsTimers, newsPc, newsScrolls>>

NewsNext ==
    \/ \E n \in ArticleCounts : ArticlesLoaded(n)
    \/ handleArticlesScroll
    \/ LoadMoreArticlesResumes
    \/ NewsRender

NewsSpec == NewsInit /\ [][NewsNext]_vars

\* the list shown is the start of the full list, as long as the count says
NewsIsPrefix ==
    articles = Slice(allArticles, 0, displayedArticleCount)

\* no article is shown twice
NewsNoRepeat ==
    \A i, j \in 1..Len(articles) : articles[i] = articles[j] => i = j

\* C28: in every reachable state articles is the first
\* min(displayedArticleCount, |allArticles|) entries of allArticles with no
\* article repeated, and at most one load-more is waiting for its 300 ms.
C28_NewsListIsPrefix ==
    /\ NewsIsPrefix
    /\ NewsNoRepeat
    /\ Len(newsTimers) <= 1

----------------------------------------------------------------------------
(* The incident list of UnifiedPanel and its load-more, in state LIVE *)

\* the longest live result
MaxIncidents == 45

\* live results stored in one run
MaxPageResults == 2

\* scroll events near the bottom of the list in one run
MaxPageScrolls == 2

\* the lengths of sortedIncidents
ResultSizes == {0, PageSize + 5, MaxIncidents}

\* the incident state after the render of a sequence of updates
RECURSIVE PageApply(_, _)
PageApply(state, updates) ==
    IF updates = <<>> THEN state
    ELSE LET u == Head(updates)
             next ==
               CASE u.op = "setNearbyIncidents" ->
                      [state EXCEPT !.incidents = u.value]
                 [] u.op = "setCount" ->
                      [state EXCEPT !.count = u.value]
                 [] u.op = "addCount" ->
                      [state EXCEPT !.count = state.count + PageSize]
                 [] u.op = "setLoadingMore" ->
                      [state EXCEPT !.loadingMore = (u.value = 1)]
         IN PageApply(next, Tail(updates))

PageInit ==
    /\ AppInit
    /\ ClusterIdle
    /\ RadiusIdle
    /\ QueryIdle
    /\ HeatIdle
    /\ LoadIdle
    /\ LayerIdle
    /\ NewsIdle
    /\ VisitIdle
    /\ pageIncidents = <<>>
    /\ pageCount = PageSize
    /\ loadingMoreIncidents = FALSE
    /\ pagePending = <<>>
    /\ pageTimers = 0
    /\ pageSince = 0
    /\ pageResults = 0

\* the cursor effect runs while LIVE and stores a result of n incidents:
\* setNearbyIncidents(sortedIncidents); setDisplayedIncidentCount(20)
PageCursorEffect(n) ==
    /\ pageResults < MaxPageResults
    /\ pageResults' = pageResults + 1
    /\ pageSince' = 0
    /\ pagePending' = pagePending \o
          << [op |-> "setNearbyIncidents", value |-> Articles(n)],
             [op |-> "setCount", value |-> PageSize] >>
    /\ UNCHANGED <<appVars, clusterVars, radiusVars, queryVars, heatVars,
                   loadVars, layerVars, newsVars, visitVars,
                   pageIncidents, pageCount, loadingMoreIncidents, pageTimers>>

\* handleIncidentsScroll near the bottom: loadMoreIncidents up to its await
handleIncidentsScroll ==
    /\ pageSince < MaxPageScrolls
    /\ ~(loadingMoreIncidents \/ pageCount >= Len(pageIncidents))
    /\ pageSince' = pageSince + 1
    /\ pagePending' = Append(pagePending,
                             [op |-> "setLoadingMore", value |-> 1])
    /\ pageTimers' = pageTimers + 1
    /\ UNCHANGED <<appVars, clusterVars, radiusVars, queryVars, heatVars,
                   loadVars, layerVars, newsVars, visitVars,
                   pageIncidents, pageCount, loadingMoreIncidents, pageResults>>

\* the 300 ms of a waiting loadMoreIncidents are over:
\* setDisplayedIncidentCount(prev => prev + 20); setLoadingMoreIncidents(false)
LoadMoreIncidentsResumes ==
    /\ pageTimers > 0
    /\ pageTimers' = pageTimers - 1
    /\ pagePending' = pagePending \o
          << [op |-> "addCount", value |-> PageSize],
             [op |-> "setLoadingMore", value |-> 0] >>
    /\ UNCHANGED <<appVars, clusterVars, radiusVars, queryVars, heatVars,
                   loadVars, layerVars, newsVars, visitVars,
                   pageIncidents, pageCount, loadingMoreIncidents, pageSince,
                   pageResults>>

\* the scheduler renders the enqueued updates
PageRender ==
    /\ pagePending # <<>>
    /\ LET next == PageApply([incidents |-> pageIncidents,
                              count |-> pageCount,
                              loadingMore |-> loadingMoreIncidents],
                             pagePending)
       IN /\ pageIncidents' = next.incidents
          /\ pageCount' = next.count
          /\ loadingMoreIncidents' = next.loadingMore
    /\ pagePending' = <<>>
    /\ UNCHANGED <<appVars, clusterVars, radiusVars, queryVars, heatVars,
                   loadVars, layerVars, newsVars, visitVars,
                   pageTimers, pageSince, pageResults>>

PageNext ==
    \/ \E n \in ResultSizes : PageCursorEffect(n)
    \/ handleIncidentsScroll
    \/ LoadMoreIncidentsResumes
    \/ PageRender

PageSpec == PageInit /\ [][PageNext]_vars

\* C29: once a live result has been stored and rendered, the displayed count
\* is 20 as long as no load-more has been triggered since, also when a
\* load-more triggered before the result resumes after it; and a render
\* changes the count by one step of 20 or sets it to 20.
C29_CountRestartsAtPageSize ==
    [][ /\ (pagePending' = <<>> /\ pageResults' > 0 /\ pageSince' = 0)
             => pageCount' = PageSize
        /\ pageCount' \in {pageCount, pageCount + PageSize, PageSize} ]_vars

----------------------------------------------------------------------------
(* Visit tracking of App: the counter in localStorage and the modals *)

\* loads of the application in one run
MaxVisits == 12

\* browser tabs that can have the application open
MaxTabs == 2

\* a text is a sequence of characters: the digits 0..9, and NaNText for the
\* text "NaN"
NaNChar == 10

NaNText == <<NaNChar>>

\* localStorage.getItem of a key that was never set
NoItem == [isNull |-> TRUE, text |-> <<>>]

\* Number.prototype.toString: the decimal digits, most significant first
RECURSIVE numberToString(_)
numberToString(n) ==
    IF isNaN(n) THEN NaNText
    ELSE IF n < 10 THEN <<n>>
    ELSE Append(numberToString(n \div 10), n % 10)

\* parseInt: the value of the longest prefix of digits, NaN without one
RECURSIVE ParseDigits(_, _)
ParseDigits(text, value) ==
    IF text = <<>> \/ Head(text) \notin 0..9 THEN value
    ELSE ParseDigits(Tail(text), 10 * value + Head(text))

parseInt(text) ==
    IF text = <<>> \/ Head(text) \notin 0..9 THEN NaN
    ELSE ParseDigits(text, 0)

\* currentCount + 1
PlusOne(n) == IF isNaN(n) THEN NaN ELSE n + 1

\* the donation modal from the second visit on
AutoModalFromSecond(newCount) ==
    IF newCount = 1 THEN "info"
    ELSE IF GE(newCount, 2) THEN "donation"
    ELSE "none"

\* if (newCount === 1) setShowModal(true)
\* else if (newCount === 2) setShowDonationModal(true)
AutoModal(newCount) ==
    IF newCount = 1 THEN "info"
    ELSE IF newCount = 2 THEN "donation"
    ELSE "none"

\* a tab without the application
ClosedTab ==
    [phase |-> "closed", showModal |-> FALSE, showDonationModal |-> FALSE,
     pending |-> "none"]

Tabs == 1..MaxTabs

VisitInit ==
    /\ AppInit
    /\ ClusterIdle
    /\ RadiusIdle
    /\ QueryIdle
    /\ HeatIdle
    /\ LoadIdle
    /\ LayerIdle
    /\ NewsIdle
    /\ PageIdle
    /\ visitStore = NoItem
    /\ visitTabs = [t \in Tabs |-> ClosedTab]
    /\ visitLoads = 0

\* the application is loaded in a tab: App renders with both modals closed
VisitOpen(t) ==
    /\ visitTabs[t].phase = "closed"
    /\ visitLoads < MaxVisits
    /\ visitLoads' = visitLoads + 1
    /\ visitTabs' = [visitTabs EXCEPT ![t] = [ClosedTab EXCEPT !.phase = "mounted"]]
    /\ UNCHANGED <<appVars, clusterVars, radiusVars, queryVars, heatVars,
                   loadVars, layerVars, newsVars, pageVars, visitStore>>

\* the visit tracking effect of the mount (App.js:192-205)
VisitEffect(t) ==
    /\ visitTabs[t].phase = "mounted"
    /\ LET visitCount == visitStore
           currentCount == IF ~visitCount.isNull /\ visitCount.text # <<>>
                           THEN parseInt(visitCount.text) ELSE 0
           newCount == PlusOne(currentCount)
       IN /\ visitStore' = [isNull |-> FALSE, text |-> numberToString(newCount)]
          /\ visitTabs' = [visitTabs EXCEPT ![t].phase = "ran",
                                            ![t].pending = AutoModal(newCount)]
    /\ UNCHANGED <<appVars, clusterVars, radiusVars, queryVars, heatVars,
                   loadVars, layerVars, newsVars, pageVars, visitLoads>>

\* the scheduler renders the effect's setShowModal(true) or
\* setShowDonationModal(true)
VisitRender(t) ==
    /\ visitTabs[t].pending # "none"
    /\ visitTabs' = [visitTabs EXCEPT
          ![t].pending = "none",
          ![t].showModal = IF visitTabs[t].pending = "info" THEN TRUE ELSE @,
          ![t].showDonationModal =
              IF visitTabs[t].pending = "donation" THEN TRUE ELSE @]
    /\ UNCHANGED <<appVars, clusterVars, radiusVars, queryVars, heatVars,
                   loadVars, layerVars, newsVars, pageVars, visitStore,
                   visitLoads>>

\* closeModal, from the close button of the open info modal
closeModal(t) ==
    /\ visitTabs[t].showModal
    /\ visitTabs' = [visitTabs EXCEPT ![t].showModal = FALSE]
    /\ UNCHANGED <<appVars, clusterVars, radiusVars, queryVars, heatVars,
                   loadVars, layerVars, newsVars, pageVars, visitStore,
                   visitLoads>>

\* closeDonationModal, from the close button of the open donation modal
closeDonationModal(t) ==
    /\ visitTabs[t].showDonationModal
    /\ visitTabs' = [visitTabs EXCEPT ![t].showDonationModal = FALSE]
    /\ UNCHANGED <<appVars, clusterVars, radiusVars, queryVars, heatVars,
                   loadVars, layerVars, newsVars, pageVars, visitStore,
                   visitLoads>>

\* the tab is closed or reloaded after the mount effects have run
VisitClose(t) ==
    /\ visitTabs[t].phase = "ran"
    /\ visitTabs' = [visitTabs EXCEPT ![t] = ClosedTab]
    /\ UNCHANGED <<appVars, clusterVars, radiusVars, queryVars, heatVars,
                   loadVars, layerVars, newsVars, pageVars, visitStore,
                   visitLoads>>

VisitNext ==
    \E t \in Tabs :
        \/ VisitOpen(t)
        \/ VisitEffect(t)
        \/ VisitRender(t)
        \/ closeModal(t)
        \/ closeDonationModal(t)
        \/ VisitClose(t)

VisitSpec == VisitInit /\ [][VisitNext]_vars

\* the number the stored text is the decimal writing of, 0 before any visit
StoredCount(item) ==
    IF item.isNull THEN 0
    ELSE CHOOSE n \in 0..(MaxVisits + 1) : numberToString(n) = item.text

\* the modal a tab has open or is about to open
ModalsOf(tab) ==
    {m \in {"info", "donation"} :
        \/ tab.pending = m
        \/ m = "info" /\ tab.showModal
        \/ m = "donation" /\ tab.showDonationModal}

\* C30: the stored visit counter goes up by exactly one when the visit effect
\* of a load runs and changes at no other step; the modal that load opens is
\* the info modal for the new count 1, the donation modal for 2 and none
\* from 3 on; and no load has both modals.
C30_VisitCounterAndModals ==
    [][ /\ \A t \in Tabs :
             IF visitTabs[t].phase = "mounted" /\ visitTabs'[t].phase = "ran"
             THEN /\ StoredCount(visitStore') = StoredCount(visitStore) + 1
                  /\ ModalsOf(visitTabs'[t]) =
                       IF StoredCount(visitStore') = 1 THEN {"info"}
                       ELSE IF StoredCount(visitStore') = 2 THEN {"donation"}
                       ELSE {}
             ELSE ModalsOf(visitTabs'[t]) \subseteq ModalsOf(visitTabs[t])
        /\ (\A t \in Tabs : ~(visitTabs[t].phase = "mounted"
                               /\ visitTabs'[t].phase = "ran"))
              => visitStore' = visitStore
        /\ \A t \in Tabs : Cardinality(ModalsOf(visitTabs'[t])) <= 1 ]_vars

\* the tenth visit has run, with no modal, after the first two showed theirs
C30_Witness ==
    /\ visitStore = [isNull |-> FALSE, text |-> <<1, 0>>]
    /\ \E t \in Tabs :
          /\ visitTabs[t].phase = "ran"
          /\ ModalsOf(visitTabs[t]) = {}
====
